---- MODULE Spec2Model ----
(***************************************************************************)
(* Model of src/Fundamental_Bot.py (class EnhancedGOOGAnalyzer): one       *)
(* analysis run of the GOOG conviction pipeline.                           *)
(*                                                                         *)
(* Number representation (the source computes in Python floats):           *)
(*   - rates (growth, margins, returns, upsides, CAGR) are whole percents: *)
(*     0.15 is 15.  A rate the code derives by division or by a root is    *)
(*     truncated towards minus infinity at that resolution;                *)
(*   - ladder tests on a quotient the code computes and does not store     *)
(*     are decided exactly, by cross-multiplication;                       *)
(*   - PEG and recommendation-mean values are tenths: 2.5 is 25;           *)
(*   - scores that feed the composite are tenths of a point: 25 points is  *)
(*     250, the macro contribution 7.5 is 75, the composite 79.9 is 799.   *)
(***************************************************************************)
EXTENDS Integers, Sequences, FiniteSets, TLC

VARIABLES
    pc,                \* position of the run inside run_complete_enhanced_analysis
    data_flags,        \* self.data_flags
    valuation_metrics, \* self.valuation_metrics
    earnings_data,     \* earnings_data of calculate_goog_conviction_score
    ceo_analysis,      \* ceo_analysis of calculate_goog_conviction_score
    revision_data,     \* revision_data of calculate_goog_conviction_score
    macro_data,        \* macro_data of calculate_goog_conviction_score
    sub_scores,        \* valuation_score, growth_score, management_score, consensus_score
    conviction_score,  \* total_score returned by the scorer / argument of the mapper
    breakdown,         \* detailed_breakdown returned by the scorer
    enhanced_data,     \* keys of the enhanced_data dict returned by the scorer
    recommendation,    \* dict returned by get_position_recommendation
    result,            \* keys of the dict returned by run_complete_enhanced_analysis
    retrieved,         \* history: providers that returned data during the last step
    succeeded,         \* history: providers that returned data at some call of the run
    requested,         \* history: providers that were asked during the last step
    answers,           \* what the providers answer to a calculator called on its own
    returned,          \* what safe_api_call returned when called on its own
    tested_flags       \* history: self.data_flags as test_api_connections left it

vars == <<pc, data_flags, valuation_metrics, earnings_data, ceo_analysis,
          revision_data, macro_data, sub_scores, conviction_score, breakdown,
          enhanced_data, recommendation, result, retrieved, succeeded,
          requested, answers, returned, tested_flags>>

-----------------------------------------------------------------------------
(* Dictionaries *)

EmptyDict == [k \in {} |-> 0]

\* dict.get(key, default)
Get(d, key, default) == IF key \in DOMAIN d THEN d[key] ELSE default

Providers == {"FMP", "AlphaVantage", "FRED", "yfinance"}

FlagNames ==
    {"fmp_api_accessible", "alpha_vantage_accessible", "fred_api_accessible",
     "yfinance_accessible", "earnings_data_available", "revision_data_available",
     "macro_data_available", "valuation_data_complete",
     "financial_statements_available", "analyst_estimates_available",
     "insider_trading_available", "institutional_holdings_available",
     "options_data_available", "news_sentiment_available"}

InitialDataFlags == [f \in FlagNames |-> FALSE]

Categories ==
    {"price_metrics", "ratio_metrics", "growth_metrics", "profitability_metrics",
     "efficiency_metrics", "leverage_metrics", "liquidity_metrics",
     "market_metrics", "dividend_metrics", "quality_metrics"}

InitialValuationMetrics == [c \in Categories |-> EmptyDict]

\* self.ceo_database['GOOG']
CeoDatabase ==
    [was_cfo |-> FALSE, vision |-> 9, execution |-> 9, founder |-> FALSE,
     technical |-> TRUE, strategic |-> TRUE]

-----------------------------------------------------------------------------
(* Arithmetic helpers *)

Abs(x) == IF x < 0 THEN -x ELSE x

Min(a, b) == IF a <= b THEN a ELSE b

Max(a, b) == IF a >= b THEN a ELSE b

RECURSIVE Pow(_, _)
Pow(b, e) == IF e = 0 THEN 1 ELSE b * Pow(b, e - 1)

\* n/d > pct/100 and n/d < pct/100 for d > 0, decided exactly
RatioGT(n, d, pct) == n * 100 > pct * d

RatioLT(n, d, pct) == n * 100 < pct * d

\* n/d as a whole percent, truncated towards minus infinity (d > 0)
Percent(n, d) == (n * 100) \div d

-----------------------------------------------------------------------------
(* The environment: what one provider call can answer *)

\* requests.get(url, timeout=10): raises, or a response with a status and a body
Raised == [raised |-> TRUE, status |-> 0, body |-> <<>>]

Response(status, body) == [raised |-> FALSE, status |-> status, body |-> body]

Responses(Bodies) ==
    {Raised, Response(500, <<>>), Response(200, <<>>)}
        \cup {Response(200, b) : b \in Bodies}

\* the response is an answer with data (status 200, non-empty body)
Delivered(response) ==
    /\ ~response.raised
    /\ response.status = 200
    /\ Len(response.body) > 0

\* yf.Ticker("GOOG").info: raises, or a dict of the fields the provider has
InfoRaised == [raised |-> TRUE, info |-> EmptyDict]

InfoOf(payload) == [raised |-> FALSE, info |-> payload]

BullInfo ==
    [symbol |-> "GOOG", currentPrice |-> 100, fiftyTwoWeekHigh |-> 150,
     targetMeanPrice |-> 140, trailingPE |-> 20, forwardPE |-> 14, pegRatio |-> 4,
     revenueGrowth |-> 35, earningsGrowth |-> 45, profitMargins |-> 35,
     returnOnEquity |-> 20, recommendationMean |-> 18,
     numberOfAnalystOpinions |-> 30, totalCash |-> 90, totalDebt |-> 30,
     currentRatio |-> 2, beta |-> 1, dividendYield |-> 1, exDividendDate |-> 1,
     recommendationKey |-> "buy"]

BearInfo ==
    [regularMarketPrice |-> 100, fiftyTwoWeekHigh |-> 100, targetMeanPrice |-> 80,
     trailingPE |-> 20, forwardPE |-> 25, pegRatio |-> 30, revenueGrowth |-> -5,
     earningsGrowth |-> -10, profitMargins |-> 3, returnOnEquity |-> 2,
     recommendationMean |-> 42, numberOfAnalystOpinions |-> 5]

InfoPayloads == {EmptyDict, BullInfo, BearInfo}

InfoResults == {InfoRaised} \cup {InfoOf(p) : p \in InfoPayloads}

-----------------------------------------------------------------------------
(* __init__ *)

NoEarnings ==
    [cagr |-> 0, quality |-> "UNKNOWN", source |-> "NONE",
     historical_earnings |-> <<>>, estimates |-> 0]

NoRevision ==
    [score |-> 0, direction |-> "STABLE", confidence |-> 50, source |-> "NONE"]

NoMacro == [score |-> 0, confidence |-> 80]

NoCeo == [score |-> 0, raw_score |-> 0]

NoScores == [valuation |-> 0, growth |-> 0, management |-> 0, consensus |-> 0]

NoRecommendation == [action |-> "NONE", position_size |-> "NONE"]

\* what safe_api_call returns: None, or the parsed payload
None == [is_none |-> TRUE, data |-> <<>>]

Some(data) == [is_none |-> FALSE, data |-> data]

NoAnswers == [income |-> Raised, estimates |-> Raised, yf |-> InfoRaised]

Init ==
    /\ pc = "start"
    /\ data_flags = InitialDataFlags
    /\ valuation_metrics = InitialValuationMetrics
    /\ earnings_data = NoEarnings
    /\ ceo_analysis = NoCeo
    /\ revision_data = NoRevision
    /\ macro_data = NoMacro
    /\ sub_scores = NoScores
    /\ conviction_score = 0
    /\ breakdown = EmptyDict
    /\ enhanced_data = {}
    /\ recommendation = NoRecommendation
    /\ result = {}
    /\ retrieved = {}
    /\ succeeded = {}
    /\ requested = {}
    /\ answers = NoAnswers
    /\ returned = None
    /\ tested_flags = InitialDataFlags

-----------------------------------------------------------------------------
(* test_api_connections *)

\* response.status_code == 200 and response.json()
ConnectionOk(response) == response.status = 200 /\ Len(response.body) > 0

\* info and info.get('symbol') == 'GOOG'
InfoConnectionOk(info) == DOMAIN info # {} /\ Get(info, "symbol", "none") = "GOOG"

TestResponses == Responses({<<"quote">>})

TestApiConnections ==
    /\ pc = "start"
    /\ \E fmp \in TestResponses, av \in TestResponses, fred \in TestResponses,
          yf \in InfoResults :
        LET fmp_ok  == ~fmp.raised /\ ConnectionOk(fmp)
            av_ok   == ~av.raised /\ ConnectionOk(av)
            fred_ok == ~fred.raised /\ ConnectionOk(fred)
            yf_ok   == ~yf.raised /\ InfoConnectionOk(yf.info)
            got     == {p \in Providers :
                          \/ p = "FMP" /\ Delivered(fmp)
                          \/ p = "AlphaVantage" /\ Delivered(av)
                          \/ p = "FRED" /\ Delivered(fred)
                          \/ p = "yfinance" /\ ~yf.raised}
        IN  /\ data_flags' =
                 [data_flags EXCEPT
                    !["fmp_api_accessible"] = IF fmp_ok THEN TRUE ELSE @,
                    !["alpha_vantage_accessible"] = IF av_ok THEN TRUE ELSE @,
                    !["fred_api_accessible"] = IF fred_ok THEN TRUE ELSE @,
                    !["yfinance_accessible"] = IF yf_ok THEN TRUE ELSE @]
            /\ retrieved' = got
            /\ succeeded' = succeeded \cup got
    /\ requested' = Providers
    /\ tested_flags' = data_flags'
    /\ pc' = "normalize"
    /\ UNCHANGED <<valuation_metrics, earnings_data, ceo_analysis, revision_data,
                   macro_data, sub_scores, conviction_score, breakdown,
                   enhanced_data, recommendation, result, answers, returned>>

-----------------------------------------------------------------------------
(* safe_api_call *)

\* response.json() raises on this response
Unparsable(response) == "malformed" \in DOMAIN response

\* a response with status 200 whose body is not JSON
Malformed == [raised |-> FALSE, status |-> 200, body |-> <<>>, malformed |-> TRUE]

\* variant that does not look at the status code
SafeApiCall_AnyStatus(response) ==
    IF response.raised \/ Unparsable(response)
    THEN None
    ELSE IF Len(response.body) > 0 THEN Some(response.body) ELSE None

SafeApiCall(response) ==
    IF response.raised \/ Unparsable(response)
    THEN None
    ELSE IF response.status = 200
         THEN IF Len(response.body) > 0 THEN Some(response.body) ELSE None
         ELSE None

\* truth value of what safe_api_call returned ("if data:")
Truthy(data) == ~data.is_none /\ Len(data.data) > 0

-----------------------------------------------------------------------------
(* get_comprehensive_valuation_data *)

\* stock.history(period=...): raises, or the closing prices (empty: no rows)
HistRaised == [raised |-> TRUE, closes |-> <<>>]

HistOf(closes) == [raised |-> FALSE, closes |-> closes]

YearHistories == {HistRaised, HistOf(<<>>), HistOf(<<100, 120>>)}

\* current_price = info.get('currentPrice', info.get('regularMarketPrice', 0))
CurrentPrice(info) == Get(info, "currentPrice", Get(info, "regularMarketPrice", 0))

\* a field that may hold a number, a text or Python's None holds one of these
Number(n) == [number |-> n]

Text(s) == [text |-> s]

NoValue == [none |-> TRUE]

\* the ten category dicts assigned from one info payload
Normalize(info) ==
    LET current_price == CurrentPrice(info)
        high == Get(info, "fiftyTwoWeekHigh", 0)
        low == Get(info, "fiftyTwoWeekLow", 0)
    IN  [price_metrics |->
            [current_price |-> current_price,
             week_52_high |-> high,
             week_52_low |-> low,
             price_vs_52w_high |->
                 IF high # 0 THEN Percent(current_price, high) - 100 ELSE 0,
             price_vs_52w_low |->
                 IF low # 0 THEN Percent(current_price, low) - 100 ELSE 0,
             price_target_mean |-> Get(info, "targetMeanPrice", 0)],
         ratio_metrics |->
            [pe_ratio |-> Get(info, "trailingPE", 0),
             forward_pe |-> Get(info, "forwardPE", 0),
             peg_ratio |-> Get(info, "pegRatio", 0)],
         growth_metrics |->
            [revenue_growth |-> Get(info, "revenueGrowth", 0),
             earnings_growth |-> Get(info, "earningsGrowth", 0),
             book_value_growth |-> 0],
         profitability_metrics |->
            [profit_margins |-> Get(info, "profitMargins", 0),
             roe |-> Get(info, "returnOnEquity", 0),
             roic |-> 0],
         efficiency_metrics |->
            [asset_turnover |-> 0,
             working_capital |-> Get(info, "totalCash", 0) - Get(info, "totalDebt", 0)],
         leverage_metrics |->
            [total_debt |-> Get(info, "totalDebt", 0),
             total_cash |-> Get(info, "totalCash", 0),
             net_debt |-> Get(info, "totalDebt", 0) - Get(info, "totalCash", 0)],
         liquidity_metrics |->
            [current_ratio |-> Get(info, "currentRatio", 0),
             cash_ratio |-> 0],
         market_metrics |-> [beta |-> Get(info, "beta", 0)],
         dividend_metrics |->
            [dividend_yield |-> Get(info, "dividendYield", 0),
             ex_dividend_date |->
                 IF "exDividendDate" \in DOMAIN info
                 THEN Number(info["exDividendDate"])
                 ELSE NoValue],
         quality_metrics |->
            [recommendation_mean |-> Get(info, "recommendationMean", 0),
             recommendation_key |-> Text(Get(info, "recommendationKey", "none")),
             number_of_analyst_opinions |-> Get(info, "numberOfAnalystOpinions", 0),
             analyst_target_upside |->
                 IF current_price > 0
                 THEN Percent(Get(info, "targetMeanPrice", 0), current_price) - 100
                 ELSE 0]]

\* lines 276-278: the try block ran to its end
\* variant that leaves the yfinance flag alone
ValuationCollected_KeepsYf(flags) == [flags EXCEPT !["valuation_data_complete"] = TRUE]

ValuationCollected(flags) ==
    [flags EXCEPT !["valuation_data_complete"] = TRUE,
                  !["yfinance_accessible"] = TRUE]

\* variant of the except handler that writes the wrong constant
ValuationFailed_SetsTrue(flags) == [flags EXCEPT !["valuation_data_complete"] = TRUE]

\* lines 282-284: the except handler
ValuationFailed(flags) == [flags EXCEPT !["valuation_data_complete"] = FALSE]

GetComprehensiveValuationData ==
    /\ pc = "normalize"
    /\ \E yf \in InfoResults, hist \in YearHistories :
        /\ IF yf.raised \/ hist.raised
           THEN /\ data_flags' = ValuationFailed(data_flags)
                /\ UNCHANGED valuation_metrics
           ELSE /\ valuation_metrics' = Normalize(yf.info)
                /\ data_flags' = ValuationCollected(data_flags)
        /\ retrieved' = IF yf.raised THEN {} ELSE {"yfinance"}
        /\ succeeded' = succeeded \cup retrieved'
    /\ requested' = {"yfinance"}
    /\ pc' = "statements"
    /\ UNCHANGED <<earnings_data, ceo_analysis, revision_data, macro_data,
                   sub_scores, conviction_score, breakdown, enhanced_data,
                   recommendation, result, answers, returned, tested_flags>>

-----------------------------------------------------------------------------
(* get_enhanced_financial_statements (and the flag report that follows it);
   the contents of the returned financial_data feed no later computation and
   are not kept *)

StatementResponses == Responses({<<"statement">>})

\* an overview whose figures parse with float(), and one with an unparsable figure
OverviewResponses == Responses({<<"overview">>, <<"unparsable">>})

GetEnhancedFinancialStatements ==
    /\ pc = "statements"
    /\ \E income \in StatementResponses, balance \in StatementResponses,
          cash_flow \in StatementResponses, overview \in OverviewResponses :
        LET fmp == data_flags["fmp_api_accessible"]
            income_data == SafeApiCall(income)
            from_fmp == fmp /\ Truthy(income_data)
            backup == data_flags["alpha_vantage_accessible"] /\ ~from_fmp
            av_data == SafeApiCall(overview)
            from_av == backup /\ Truthy(av_data) /\ av_data.data # <<"unparsable">>
            got == {p \in Providers :
                      \/ p = "FMP" /\ fmp
                            /\ (Delivered(income) \/ Delivered(balance)
                                  \/ Delivered(cash_flow))
                      \/ p = "AlphaVantage" /\ backup /\ Delivered(overview)}
        IN  /\ data_flags' =
                 [data_flags EXCEPT !["financial_statements_available"] =
                     IF from_fmp \/ from_av THEN TRUE ELSE @]
            /\ retrieved' = got
            /\ succeeded' = succeeded \cup got
            /\ requested' = {p \in Providers :
                                \/ p = "FMP" /\ fmp
                                \/ p = "AlphaVantage" /\ backup}
    /\ pc' = "quote"
    /\ UNCHANGED <<valuation_metrics, earnings_data, ceo_analysis, revision_data,
                   macro_data, sub_scores, conviction_score, breakdown,
                   enhanced_data, recommendation, result, answers, returned, tested_flags>>

-----------------------------------------------------------------------------
(* calculate_goog_conviction_score: the quote lookup that opens the try block,
   and the except handler that closes it *)

\* variant of the except handler that re-raises instead of returning
ScorerExcept_Propagates ==
    /\ pc' = "raised"
    /\ UNCHANGED <<conviction_score, breakdown, enhanced_data>>

\* lines 1372-1374: return 0, {}, {}
ScorerExcept ==
    /\ conviction_score' = 0
    /\ breakdown' = EmptyDict
    /\ enhanced_data' = {}
    /\ pc' = "scored"

QuoteLookup ==
    /\ pc = "quote"
    /\ \E yf \in InfoResults :
        /\ IF yf.raised
           THEN ScorerExcept
           ELSE /\ pc' = "valuation_growth"
                /\ UNCHANGED <<conviction_score, breakdown, enhanced_data>>
        /\ retrieved' = IF yf.raised THEN {} ELSE {"yfinance"}
        /\ succeeded' = succeeded \cup retrieved'
    /\ requested' = {"yfinance"}
    /\ UNCHANGED <<data_flags, valuation_metrics, earnings_data, ceo_analysis,
                   revision_data, macro_data, sub_scores, recommendation, result,
                   answers, returned, tested_flags>>

-----------------------------------------------------------------------------
(* get_goog_earnings_data *)

Reverse(seq) == [i \in 1..Len(seq) |-> seq[Len(seq) + 1 - i]]

\* the net_income of every record, oldest first (reversed(fmp_data))
HistoricalNetIncome(fmp_data) ==
    LET chronological == Reverse(fmp_data)
    IN  [i \in 1..Len(chronological) |-> Get(chronological[i], "netIncome", 0)]

\* "if net_income: earnings_list.append(abs(net_income))"
RECURSIVE EarningsList(_)
EarningsList(net_incomes) ==
    IF net_incomes = <<>>
    THEN <<>>
    ELSE IF Head(net_incomes) # 0
         THEN <<Abs(Head(net_incomes))>> \o EarningsList(Tail(net_incomes))
         ELSE EarningsList(Tail(net_incomes))

\* (latest / earliest) ** (1 / years), as a whole percent truncated downwards
RootPercent(latest, earliest, years) ==
    LET limit == Max(100, Percent(latest, earliest))
    IN  CHOOSE r \in 0..limit :
            /\ Pow(r, years) * earliest <= latest * Pow(100, years)
            /\ Pow(r + 1, years) * earliest > latest * Pow(100, years)

\* variant that takes the number of figures, not of intervals, as the period
Cagr_PeriodIsCount(earnings_list) ==
    LET years == Len(earnings_list)
    IN  RootPercent(earnings_list[Len(earnings_list)], earnings_list[1], years) - 100

\* years = len(earnings_list) - 1
\* (earnings_list[-1] / earnings_list[0]) ** (1/years) - 1
Cagr(earnings_list) ==
    LET years == Len(earnings_list) - 1
    IN  RootPercent(earnings_list[Len(earnings_list)], earnings_list[1], years) - 100

\* Method 1 (lines 408-443): the rate from the statements, if any
StatementsPath(fmp_accessible, income, earnings) ==
    LET fmp_data == SafeApiCall(income)
        usable == fmp_accessible /\ Truthy(fmp_data) /\ Len(fmp_data.data) >= 2
        historical == IF usable THEN HistoricalNetIncome(fmp_data.data) ELSE <<>>
        earnings_list == EarningsList(historical)
    IN  IF Len(earnings_list) >= 2
        THEN [earnings EXCEPT !.cagr = Cagr(earnings_list), !.quality = "HIGH",
                              !.source = "FMP", !.historical_earnings = historical]
        ELSE [earnings EXCEPT !.historical_earnings = historical]

\* Method 2 (lines 445-463): the forward estimates kept, at most 4
EstimatesPath(fmp_accessible, estimates, earnings) ==
    LET estimates_data == SafeApiCall(estimates)
    IN  IF fmp_accessible /\ Truthy(estimates_data)
        THEN [earnings EXCEPT !.estimates = Min(Len(estimates_data.data), 4)]
        ELSE earnings

\* Method 3 (lines 465-485): the yfinance growth field, then the constant
YFinanceFallback(yf_accessible, yf, earnings) ==
    IF earnings.cagr = 0 /\ yf_accessible
    THEN IF yf.raised
         THEN earnings
         ELSE LET earnings_growth == Get(yf.info, "earningsGrowth", 0)
              IN  IF earnings_growth # 0
                  THEN [earnings EXCEPT !.cagr = earnings_growth,
                                        !.quality = "ESTIMATED",
                                        !.source = "YFINANCE"]
                  ELSE [earnings EXCEPT !.cagr = 15,
                                        !.quality = "ESTIMATED_HISTORICAL",
                                        !.source = "FALLBACK"]
    ELSE earnings

\* the dict get_goog_earnings_data returns
GetGoogEarningsData(flags, income, estimates, yf) ==
    LET fmp == flags["fmp_api_accessible"]
        method1 == StatementsPath(fmp, income, NoEarnings)
        method2 == EstimatesPath(fmp, estimates, method1)
    IN  YFinanceFallback(flags["yfinance_accessible"], yf, method2)

\* the flags get_goog_earnings_data sets (lines 439 and 462)
EarningsFlags(flags, income, estimates) ==
    LET fmp == flags["fmp_api_accessible"]
        method1 == StatementsPath(fmp, income, NoEarnings)
        method2 == EstimatesPath(fmp, estimates, method1)
    IN  [flags EXCEPT
            !["earnings_data_available"] = IF method1.source = "FMP" THEN TRUE ELSE @,
            !["analyst_estimates_available"] = IF method2.estimates > 0 THEN TRUE ELSE @]

\* history: the providers that returned data to get_goog_earnings_data
EarningsRetrieved(flags, income, estimates, yf) ==
    LET fmp == flags["fmp_api_accessible"]
        method1 == StatementsPath(fmp, income, NoEarnings)
    IN  {p \in Providers :
            \/ p = "FMP" /\ fmp /\ (Delivered(income) \/ Delivered(estimates))
            \/ p = "yfinance" /\ method1.cagr = 0
                  /\ flags["yfinance_accessible"] /\ ~yf.raised}

\* history: the providers get_goog_earnings_data asks (lines 409 and 466)
EarningsRequested(flags, income) ==
    LET fmp == flags["fmp_api_accessible"]
        method1 == StatementsPath(fmp, income, NoEarnings)
    IN  {p \in Providers :
            \/ p = "FMP" /\ fmp
            \/ p = "yfinance" /\ method1.cagr = 0 /\ flags["yfinance_accessible"]}

-----------------------------------------------------------------------------
(* calculate_goog_conviction_score: valuation and growth sub-scores *)

\* Factor 1 (lines 1116-1146): P/E compression ladder
PeCompressionPoints(ratio_metrics) ==
    LET forward_pe == Get(ratio_metrics, "forward_pe", 0)
        trailing_pe == Get(ratio_metrics, "pe_ratio", 0)
        gap == trailing_pe - forward_pe
    IN  IF forward_pe > 0 /\ trailing_pe > 0
        THEN IF RatioGT(gap, trailing_pe, 25) THEN 100
             ELSE IF RatioGT(gap, trailing_pe, 20) THEN 80
             ELSE IF RatioGT(gap, trailing_pe, 15) THEN 60
             ELSE IF RatioGT(gap, trailing_pe, 10) THEN 40
             ELSE IF RatioGT(gap, trailing_pe, 5) THEN 20
             ELSE 0
        ELSE 0

\* Factor 2 (lines 1148-1173): PEG ladder; the PEG ratio is num/den, either
\* the stored one (tenths) or forward_pe / (abs(earnings_cagr) * 100)
PegPoints(ratio_metrics, earnings_cagr) ==
    LET forward_pe == Get(ratio_metrics, "forward_pe", 0)
        stored == Get(ratio_metrics, "peg_ratio", 0)
        derive == stored = 0 /\ forward_pe > 0 /\ earnings_cagr # 0
        num == IF derive THEN forward_pe ELSE stored
        den == IF derive THEN Abs(earnings_cagr) ELSE 10
    IN  IF earnings_cagr > 0 /\ num > 0
        THEN IF num * 10 < 5 * den THEN 80
             ELSE IF num * 10 < 8 * den THEN 60
             ELSE IF num * 10 < 12 * den THEN 40
             ELSE IF num * 10 < 18 * den THEN 20
             ELSE IF num * 10 > 25 * den THEN -20
             ELSE 0
        ELSE IF earnings_cagr < 0 THEN -30 ELSE 0

\* Factor 3 (lines 1175-1187): analyst target upside ladder
TargetUpsidePoints(price_metrics) ==
    LET current == Get(price_metrics, "current_price", 0)
        gain == Get(price_metrics, "price_target_mean", 0) - current
    IN  IF current > 0 /\ gain # 0
        THEN IF RatioGT(gain, current, 30) THEN 40
             ELSE IF RatioGT(gain, current, 15) THEN 20
             ELSE IF RatioLT(gain, current, -10) THEN -20
             ELSE 0
        ELSE 0

\* Factor 4 (lines 1189-1196): 52-week positioning
PositioningPoints(price_metrics) ==
    LET price_vs_52w_high == Get(price_metrics, "price_vs_52w_high", 0)
    IN  IF price_vs_52w_high < -30 THEN 30
        ELSE IF price_vs_52w_high < -15 THEN 10
        ELSE 0

ValuationScore(metrics, earnings_cagr) ==
    PeCompressionPoints(metrics["ratio_metrics"])
        + PegPoints(metrics["ratio_metrics"], earnings_cagr)
        + TargetUpsidePoints(metrics["price_metrics"])
        + PositioningPoints(metrics["price_metrics"])

\* lines 1211-1231
\* variant that treats a rate of 0 as neutral
EarningsGrowthPoints_ZeroNeutral(earnings_cagr) ==
    IF earnings_cagr > 40 THEN 120
    ELSE IF earnings_cagr > 30 THEN 100
    ELSE IF earnings_cagr > 20 THEN 80
    ELSE IF earnings_cagr > 15 THEN 60
    ELSE IF earnings_cagr > 10 THEN 40
    ELSE IF earnings_cagr > 0 THEN 20
    ELSE IF earnings_cagr = 0 THEN 0
    ELSE -40

\* variant whose 0.15 threshold is inclusive
EarningsGrowthPoints_Inclusive(earnings_cagr) ==
    IF earnings_cagr > 40 THEN 120
    ELSE IF earnings_cagr > 30 THEN 100
    ELSE IF earnings_cagr > 20 THEN 80
    ELSE IF earnings_cagr >= 15 THEN 60
    ELSE IF earnings_cagr > 10 THEN 40
    ELSE IF earnings_cagr > 0 THEN 20
    ELSE -40

EarningsGrowthPoints(earnings_cagr) ==
    IF earnings_cagr > 40 THEN 120
    ELSE IF earnings_cagr > 30 THEN 100
    ELSE IF earnings_cagr > 20 THEN 80
    ELSE IF earnings_cagr > 15 THEN 60
    ELSE IF earnings_cagr > 10 THEN 40
    ELSE IF earnings_cagr > 0 THEN 20
    ELSE -40

\* lines 1233-1258
RevenueGrowthPoints(growth_metrics) ==
    LET revenue_growth == Get(growth_metrics, "revenue_growth", 0)
    IN  IF revenue_growth > 30 THEN 80
        ELSE IF revenue_growth > 20 THEN 60
        ELSE IF revenue_growth > 15 THEN 40
        ELSE IF revenue_growth > 10 THEN 30
        ELSE IF revenue_growth > 5 THEN 20
        ELSE IF revenue_growth > 0 THEN 10
        ELSE -30

\* lines 1260-1287
ProfitMarginPoints(profitability_metrics) ==
    LET profit_margins == Get(profitability_metrics, "profit_margins", 0)
    IN  IF profit_margins > 30 THEN 50
        ELSE IF profit_margins > 20 THEN 40
        ELSE IF profit_margins > 15 THEN 30
        ELSE IF profit_margins > 10 THEN 20
        ELSE IF profit_margins > 5 THEN 10
        ELSE 0

GrowthScore(metrics, earnings_cagr) ==
    EarningsGrowthPoints(earnings_cagr)
        + RevenueGrowthPoints(metrics["growth_metrics"])
        + ProfitMarginPoints(metrics["profitability_metrics"])

\* the FMP income-statement payloads of a run, newest record first
RunIncomeBodies ==
    {<<[netIncome |-> 121], [netIncome |-> 100]>>,
     <<[netIncome |-> 100], [netIncome |-> -121]>>,
     <<[netIncome |-> 100], [revenue |-> 7], [netIncome |-> 100]>>,
     <<[netIncome |-> 100]>>}

RunEstimateBodies == {<<[estimatedEpsAvg |-> 100]>>}

\* lines 1109-1289
ScoreValuationAndGrowth ==
    /\ pc = "valuation_growth"
    /\ \E income \in Responses(RunIncomeBodies),
          estimates \in Responses(RunEstimateBodies), yf \in InfoResults :
        LET data == GetGoogEarningsData(data_flags, income, estimates, yf)
        IN  /\ earnings_data' = data
            /\ data_flags' = EarningsFlags(data_flags, income, estimates)
            /\ sub_scores' =
                 [sub_scores EXCEPT
                    !.valuation = ValuationScore(valuation_metrics, data.cagr),
                    !.growth = GrowthScore(valuation_metrics, data.cagr)]
            /\ retrieved' = EarningsRetrieved(data_flags, income, estimates, yf)
            /\ succeeded' = succeeded \cup retrieved'
            /\ requested' = EarningsRequested(data_flags, income)
    /\ pc' = "management"
    /\ UNCHANGED <<valuation_metrics, ceo_analysis, revision_data, macro_data,
                   conviction_score, breakdown, enhanced_data, recommendation,
                   result, answers, returned, tested_flags>>

-----------------------------------------------------------------------------
(* analyze_goog_ceo *)

\* lines 841-932 and 1006-1022: the points that come from the static table
CeoStaticScore(ceo_data) ==
    LET rule_one == IF ~ceo_data.was_cfo THEN 4 ELSE -2
        background == (IF ceo_data.technical THEN 2 ELSE 0)
                        + (IF ceo_data.strategic THEN 1 ELSE 0)
                        + (IF ceo_data.founder THEN 2 ELSE 0) + 2
        vision_score == IF ceo_data.vision >= 9 THEN 4
                        ELSE IF ceo_data.vision >= 7 THEN 3
                        ELSE IF ceo_data.vision >= 5 THEN 1
                        ELSE -1
        execution_score == IF ceo_data.execution >= 9 THEN 4
                           ELSE IF ceo_data.execution >= 7 THEN 3
                           ELSE IF ceo_data.execution >= 5 THEN 1
                           ELSE -2
        google_specific_factors == 1 + 1 + 1 + 1 + 1 + 0 + 1
    IN  rule_one + background + vision_score + execution_score
            + google_specific_factors

\* lines 982-1001: performance_score from the live ratios
PerformanceScore(info) ==
    LET roe == Get(info, "returnOnEquity", 0)
        profit_margins == Get(info, "profitMargins", 0)
    IN  (IF roe > 15 THEN 2 ELSE IF roe > 10 THEN 1 ELSE IF roe < 5 THEN -1 ELSE 0)
          + (IF profit_margins > 20 THEN 1
             ELSE IF profit_margins < 10 THEN -1
             ELSE 0)

\* the score accumulated before line 1025
CeoRawScore(flags, yf) ==
    CeoStaticScore(CeoDatabase)
        + (IF flags["yfinance_accessible"] /\ ~yf.raised
           THEN PerformanceScore(yf.info)
           ELSE 0)

\* variant of the clamp without its lower bound
CeoFinalScore_NoFloor(raw) == Min(raw, 15)

\* line 1025: final_score = min(max(ceo_analysis['score'], 0), 15)
CeoFinalScore(raw) == Min(Max(raw, 0), 15)

\* the dict analyze_goog_ceo returns; raw_score is history, the value the
\* score had before line 1025 replaced it
AnalyzeGoogCeo(flags, yf) ==
    [score |-> CeoFinalScore(CeoRawScore(flags, yf)),
     raw_score |-> CeoRawScore(flags, yf)]

\* variant scaling by 1.6
ManagementScore_Factor16(ceo_score) == 10 * Min((ceo_score * 160) \div 100, 25)

\* line 1296: min(int(ceo_analysis['score'] * 1.67), 25), in tenths of a point
ManagementScore(ceo_score) == 10 * Min((ceo_score * 167) \div 100, 25)

\* lines 1295-1299
ScoreManagement ==
    /\ pc = "management"
    /\ \E yf \in InfoResults :
        LET analysis == AnalyzeGoogCeo(data_flags, yf)
        IN  /\ ceo_analysis' = analysis
            /\ sub_scores' =
                 [sub_scores EXCEPT !.management = ManagementScore(analysis.score)]
            /\ retrieved' = IF data_flags["yfinance_accessible"] /\ ~yf.raised
                            THEN {"yfinance"}
                            ELSE {}
            /\ succeeded' = succeeded \cup retrieved'
            /\ requested' = IF data_flags["yfinance_accessible"]
                            THEN {"yfinance"}
                            ELSE {}
    /\ pc' = "revisions"
    /\ UNCHANGED <<data_flags, valuation_metrics, earnings_data, revision_data,
                   macro_data, conviction_score, breakdown, enhanced_data,
                   recommendation, result, answers, returned, tested_flags>>

-----------------------------------------------------------------------------
(* get_goog_revisions *)

\* df.sort_values('date', ascending=False): newest snapshot first
RECURSIVE SortByDateDescending(_)
SortByDateDescending(rows) ==
    IF rows = <<>>
    THEN <<>>
    ELSE LET newest == CHOOSE i \in 1..Len(rows) :
                           \A j \in 1..Len(rows) :
                               \/ rows[j].date < rows[i].date
                               \/ rows[j].date = rows[i].date /\ i <= j
             rest == [k \in 1..(Len(rows) - 1) |->
                          IF k < newest THEN rows[k] ELSE rows[k + 1]]
         IN  <<rows[newest]>> \o SortByDateDescending(rest)

\* variant that divides by the previous value itself, not by its magnitude
TrendBucket_Signed(latest, previous) ==
    LET change == latest - previous
    IN  IF RatioGT(change, previous, 15)
        THEN [score |-> 5, direction |-> "VERY BULLISH", confidence |-> 95]
        ELSE IF RatioGT(change, previous, 10)
        THEN [score |-> 4, direction |-> "BULLISH", confidence |-> 90]
        ELSE IF RatioGT(change, previous, 5)
        THEN [score |-> 3, direction |-> "POSITIVE", confidence |-> 80]
        ELSE IF RatioGT(change, previous, 2)
        THEN [score |-> 2, direction |-> "SLIGHTLY POSITIVE", confidence |-> 70]
        ELSE IF RatioLT(change, previous, -15)
        THEN [score |-> -4, direction |-> "VERY BEARISH", confidence |-> 95]
        ELSE IF RatioLT(change, previous, -10)
        THEN [score |-> -3, direction |-> "BEARISH", confidence |-> 90]
        ELSE IF RatioLT(change, previous, -5)
        THEN [score |-> -2, direction |-> "NEGATIVE", confidence |-> 80]
        ELSE [score |-> 0, direction |-> "STABLE", confidence |-> 60]

\* lines 538-570: the ladder on (latest - previous) / abs(previous)
TrendBucket(latest, previous) ==
    LET change == latest - previous
        base == Abs(previous)
    IN  IF RatioGT(change, base, 15)
        THEN [score |-> 5, direction |-> "VERY BULLISH", confidence |-> 95]
        ELSE IF RatioGT(change, base, 10)
        THEN [score |-> 4, direction |-> "BULLISH", confidence |-> 90]
        ELSE IF RatioGT(change, base, 5)
        THEN [score |-> 3, direction |-> "POSITIVE", confidence |-> 80]
        ELSE IF RatioGT(change, base, 2)
        THEN [score |-> 2, direction |-> "SLIGHTLY POSITIVE", confidence |-> 70]
        ELSE IF RatioLT(change, base, -15)
        THEN [score |-> -4, direction |-> "VERY BEARISH", confidence |-> 95]
        ELSE IF RatioLT(change, base, -10)
        THEN [score |-> -3, direction |-> "BEARISH", confidence |-> 90]
        ELSE IF RatioLT(change, base, -5)
        THEN [score |-> -2, direction |-> "NEGATIVE", confidence |-> 80]
        ELSE [score |-> 0, direction |-> "STABLE", confidence |-> 60]

\* every snapshot carries the columns the frame is indexed by; a payload
\* that lacks one raises at line 513 or 528, which line 576 catches
WellFormed(rows) ==
    \A i \in 1..Len(rows) : {"date", "estimatedEpsAvg"} \subseteq DOMAIN rows[i]

\* variant of Method 1 without the test "previous != 0"
RevisionPrimaryPath_Unguarded(fmp_accessible, estimates, revision) ==
    LET fmp_data == SafeApiCall(estimates)
        usable == /\ fmp_accessible
                  /\ Truthy(fmp_data)
                  /\ Len(fmp_data.data) >= 3
                  /\ WellFormed(fmp_data.data)
        df == IF usable THEN SortByDateDescending(fmp_data.data) ELSE <<>>
    IN  IF usable
        THEN LET bucket == TrendBucket(df[1].estimatedEpsAvg, df[3].estimatedEpsAvg)
             IN  [revision EXCEPT !.score = bucket.score,
                                  !.direction = bucket.direction,
                                  !.confidence = bucket.confidence,
                                  !.source = "FMP"]
        ELSE revision

\* Method 1 (lines 505-577)
RevisionPrimaryPath(fmp_accessible, estimates, revision) ==
    LET fmp_data == SafeApiCall(estimates)
        usable == /\ fmp_accessible
                  /\ Truthy(fmp_data)
                  /\ Len(fmp_data.data) >= 3
                  /\ WellFormed(fmp_data.data)
        df == IF usable THEN SortByDateDescending(fmp_data.data) ELSE <<>>
    IN  IF usable /\ df[3].estimatedEpsAvg # 0
        THEN LET bucket == TrendBucket(df[1].estimatedEpsAvg, df[3].estimatedEpsAvg)
             IN  [revision EXCEPT !.score = bucket.score,
                                  !.direction = bucket.direction,
                                  !.confidence = bucket.confidence,
                                  !.source = "FMP"]
        ELSE revision

\* lines 612-626
UpsideComponent(target_mean_price, current_price) ==
    LET gain == target_mean_price - current_price
    IN  IF RatioGT(gain, current_price, 30) THEN 4
        ELSE IF RatioGT(gain, current_price, 20) THEN 3
        ELSE IF RatioGT(gain, current_price, 10) THEN 2
        ELSE IF RatioGT(gain, current_price, 5) THEN 1
        ELSE IF RatioLT(gain, current_price, -15) THEN -3
        ELSE IF RatioLT(gain, current_price, -5) THEN -1
        ELSE 0

\* variant whose first threshold is inclusive
RecommendationComponent_Inclusive(recommendation_mean) ==
    IF recommendation_mean <= 20 THEN 2
    ELSE IF recommendation_mean < 25 THEN 1
    ELSE IF recommendation_mean > 40 THEN -2
    ELSE IF recommendation_mean > 35 THEN -1
    ELSE 0

\* lines 628-638 (recommendation_mean in tenths)
RecommendationComponent(recommendation_mean) ==
    IF recommendation_mean < 20 THEN 2
    ELSE IF recommendation_mean < 25 THEN 1
    ELSE IF recommendation_mean > 40 THEN -2
    ELSE IF recommendation_mean > 35 THEN -1
    ELSE 0

\* lines 640-646
AnalystConfidence(num_analysts) ==
    IF num_analysts > 20 THEN 80 ELSE IF num_analysts > 10 THEN 70 ELSE 60

\* lines 650-662
FallbackDirection(score) ==
    IF score >= 4 THEN "VERY BULLISH"
    ELSE IF score >= 2 THEN "BULLISH"
    ELSE IF score >= 1 THEN "POSITIVE"
    ELSE IF score <= -3 THEN "VERY BEARISH"
    ELSE IF score <= -1 THEN "BEARISH"
    ELSE "STABLE"

\* Method 2 (lines 579-668)
\* variant that runs only when the primary path found no source
RevisionFallbackPath_KeepsPrimary(yf_accessible, yf, revision) ==
    IF revision.source = "NONE" /\ yf_accessible /\ ~yf.raised
    THEN LET recommendation_mean == Get(yf.info, "recommendationMean", 30)
             target_mean_price == Get(yf.info, "targetMeanPrice", 0)
             current_price == CurrentPrice(yf.info)
             num_analysts == Get(yf.info, "numberOfAnalystOpinions", 0)
             score == UpsideComponent(target_mean_price, current_price)
                        + RecommendationComponent(recommendation_mean)
         IN  IF target_mean_price # 0 /\ current_price # 0
             THEN [revision EXCEPT !.score = score,
                                   !.direction = FallbackDirection(score),
                                   !.confidence = AnalystConfidence(num_analysts),
                                   !.source = "YFINANCE"]
             ELSE revision
    ELSE revision

RevisionFallbackPath(yf_accessible, yf, revision) ==
    IF revision.score = 0 /\ yf_accessible /\ ~yf.raised
    THEN LET recommendation_mean == Get(yf.info, "recommendationMean", 30)
             target_mean_price == Get(yf.info, "targetMeanPrice", 0)
             current_price == CurrentPrice(yf.info)
             num_analysts == Get(yf.info, "numberOfAnalystOpinions", 0)
             score == UpsideComponent(target_mean_price, current_price)
                        + RecommendationComponent(recommendation_mean)
         IN  IF target_mean_price # 0 /\ current_price # 0
             THEN [revision EXCEPT !.score = score,
                                   !.direction = FallbackDirection(score),
                                   !.confidence = AnalystConfidence(num_analysts),
                                   !.source = "YFINANCE"]
             ELSE revision
    ELSE revision

\* the dict get_goog_revisions returns
GetGoogRevisions(flags, estimates, yf) ==
    RevisionFallbackPath(
        flags["yfinance_accessible"], yf,
        RevisionPrimaryPath(flags["fmp_api_accessible"], estimates, NoRevision))

\* the flag get_goog_revisions sets (lines 573 and 665)
RevisionFlags(flags, estimates, yf) ==
    [flags EXCEPT !["revision_data_available"] =
        IF GetGoogRevisions(flags, estimates, yf).source # "NONE" THEN TRUE ELSE @]

\* history: the providers that returned data to get_goog_revisions
RevisionRetrieved(flags, estimates, yf) ==
    LET primary == RevisionPrimaryPath(flags["fmp_api_accessible"], estimates,
                                       NoRevision)
    IN  {p \in Providers :
            \/ p = "FMP" /\ flags["fmp_api_accessible"] /\ Delivered(estimates)
            \/ p = "yfinance" /\ primary.score = 0
                  /\ flags["yfinance_accessible"] /\ ~yf.raised}

\* history: the providers get_goog_revisions asks (lines 506 and 580)
RevisionRequested(flags, estimates) ==
    LET primary == RevisionPrimaryPath(flags["fmp_api_accessible"], estimates,
                                       NoRevision)
    IN  {p \in Providers :
            \/ p = "FMP" /\ flags["fmp_api_accessible"]
            \/ p = "yfinance" /\ primary.score = 0 /\ flags["yfinance_accessible"]}

\* variant that scales the revision score instead of laddering it
RevisionPoints_Scaled(revision_score) == revision_score * 30

\* lines 1312-1337: the ladder on the revision score, in tenths of a point
RevisionPoints(revision_score) ==
    IF revision_score >= 5 THEN 150
    ELSE IF revision_score >= 4 THEN 120
    ELSE IF revision_score >= 3 THEN 100
    ELSE IF revision_score >= 2 THEN 70
    ELSE IF revision_score >= 1 THEN 40
    ELSE IF revision_score <= -4 THEN -80
    ELSE IF revision_score <= -3 THEN -50
    ELSE IF revision_score <= -2 THEN -30
    ELSE 0

Snapshot(date, eps) == [date |-> date, estimatedEpsAvg |-> eps]

\* the FMP analyst-estimate payloads of a run
RunRevisionBodies ==
    {<<Snapshot(2, 110), Snapshot(3, 120), Snapshot(1, 100)>>,
     <<Snapshot(3, 80), Snapshot(2, 90), Snapshot(1, 100)>>,
     <<Snapshot(3, 101), Snapshot(2, 100), Snapshot(1, 100)>>,
     <<Snapshot(3, 100), Snapshot(2, 100), Snapshot(1, 0)>>,
     <<Snapshot(2, 100), Snapshot(1, 90)>>}

\* lines 1305-1337
ScoreRevisions ==
    /\ pc = "revisions"
    /\ \E estimates \in Responses(RunRevisionBodies), yf \in InfoResults :
        LET data == GetGoogRevisions(data_flags, estimates, yf)
        IN  /\ revision_data' = data
            /\ data_flags' = RevisionFlags(data_flags, estimates, yf)
            /\ sub_scores' =
                 [sub_scores EXCEPT !.consensus = RevisionPoints(data.score)]
            /\ retrieved' = RevisionRetrieved(data_flags, estimates, yf)
            /\ succeeded' = succeeded \cup retrieved'
            /\ requested' = RevisionRequested(data_flags, estimates)
    /\ pc' = "macro"
    /\ UNCHANGED <<valuation_metrics, earnings_data, ceo_analysis, macro_data,
                   conviction_score, breakdown, enhanced_data, recommendation,
                   result, answers, returned, tested_flags>>

-----------------------------------------------------------------------------
(* get_goog_macro_analysis; the sector_performance, economic_indicators and
   reasons it collects feed no score and are not kept *)

SectorTickers == {"QQQ", "SPY", "XLK", "FTEC", "XLC", "FCOM"}

EconomicIndicators == {"DGS10", "UNRATE", "CPIAUCSL", "GDPC1"}

\* the weights of google_factors (lines 785-796)
GoogleFactorWeights == <<3, 2, 2, -2, 2, 2, -1, -1, 1, 1>>

RECURSIVE Sum(_)
Sum(seq) == IF seq = <<>> THEN 0 ELSE Head(seq) + Sum(Tail(seq))

\* one ticker's two history calls: etf.history("3mo") and etf.history("1y")
TickerFeed(quarter, year) == [quarter |-> quarter, year |-> year]

\* the ticker reaches its scoring block (lines 704-720)
TickerAnalysed(ticker_feed) ==
    /\ ~ticker_feed.quarter.raised
    /\ Len(ticker_feed.quarter.closes) > 0
    /\ ~ticker_feed.year.raised

\* variant whose top threshold is inclusive
XlcPoints_Inclusive(closes) ==
    LET first == closes[1]
        change == closes[Len(closes)] - first
    IN  IF change * 100 >= 20 * first THEN 3
        ELSE IF RatioGT(change, first, 10) THEN 2
        ELSE IF RatioGT(change, first, 5) THEN 1
        ELSE IF RatioLT(change, first, -15) THEN -3
        ELSE IF RatioLT(change, first, -5) THEN -1
        ELSE 0

\* lines 721-736, on returns_3m = closes[-1] / closes[0] - 1
XlcPoints(closes) ==
    LET first == closes[1]
        change == closes[Len(closes)] - first
    IN  IF RatioGT(change, first, 20) THEN 3
        ELSE IF RatioGT(change, first, 10) THEN 2
        ELSE IF RatioGT(change, first, 5) THEN 1
        ELSE IF RatioLT(change, first, -15) THEN -3
        ELSE IF RatioLT(change, first, -5) THEN -1
        ELSE 0

\* lines 738-747
QqqPoints(closes) ==
    LET first == closes[1]
        change == closes[Len(closes)] - first
    IN  IF RatioGT(change, first, 15) THEN 2
        ELSE IF RatioGT(change, first, 5) THEN 1
        ELSE IF RatioLT(change, first, -10) THEN -1
        ELSE 0

\* variant that also scores XLK on the broad-sector ladder
SectorPoints_WithXlk(feed) ==
    (IF TickerAnalysed(feed["XLC"]) THEN XlcPoints(feed["XLC"].quarter.closes) ELSE 0)
      + (IF TickerAnalysed(feed["QQQ"]) THEN QqqPoints(feed["QQQ"].quarter.closes)
         ELSE 0)
      + (IF TickerAnalysed(feed["XLK"]) THEN QqqPoints(feed["XLK"].quarter.closes)
         ELSE 0)

\* lines 699-750: what the sector loop adds to the score
SectorPoints(feed) ==
    (IF TickerAnalysed(feed["XLC"]) THEN XlcPoints(feed["XLC"].quarter.closes) ELSE 0)
      + (IF TickerAnalysed(feed["QQQ"]) THEN QqqPoints(feed["QQQ"].quarter.closes)
         ELSE 0)

\* the dict get_goog_macro_analysis returns
GetGoogMacroAnalysis(feed) ==
    [score |-> SectorPoints(feed) + Sum(GoogleFactorWeights), confidence |-> 80]

\* variant that also marks the news flag
MacroFlags_WithNews(flags) ==
    [flags EXCEPT !["macro_data_available"] = TRUE,
                  !["news_sentiment_available"] = TRUE]

\* line 812
MacroFlags(flags) == [flags EXCEPT !["macro_data_available"] = TRUE]

\* history: the providers that returned data to get_goog_macro_analysis
MacroRetrieved(flags, feed, fred) ==
    {p \in Providers :
        \/ p = "yfinance"
              /\ \E t \in SectorTickers :
                    ~feed[t].quarter.raised /\ Len(feed[t].quarter.closes) > 0
        \/ p = "FRED" /\ flags["fred_api_accessible"]
              /\ \E i \in EconomicIndicators : Delivered(fred[i])}

\* variant without the upper clamp
MacroContribution_NoCap(macro_score) == Max(macro_score * 15, -80)

\* line 1343: min(max(macro_score * 1.5, -8), 10), in tenths of a point
MacroContribution(macro_score) == Min(Max(macro_score * 15, -80), 100)

\* line 1349
TotalScore(scores) ==
    scores.valuation + scores.growth + scores.management + scores.consensus

EnhancedDataKeys ==
    {"earnings_data", "revision_data", "ceo_analysis", "macro_data",
     "valuation_metrics", "financial_data", "data_flags"}

SectorFeed(xlc, qqq, rest) ==
    [t \in SectorTickers |->
        IF t = "XLC" THEN xlc ELSE IF t = "QQQ" THEN qqq ELSE rest]

Closes(first, last) == TickerFeed(HistOf(<<first, last>>), HistOf(<<first, last>>))

\* the sector feeds of a run
RunSectorFeeds ==
    {SectorFeed(TickerFeed(HistRaised, HistRaised), TickerFeed(HistRaised, HistRaised),
                TickerFeed(HistRaised, HistRaised)),
     SectorFeed(TickerFeed(HistOf(<<>>), HistOf(<<>>)),
                TickerFeed(HistOf(<<>>), HistOf(<<>>)),
                TickerFeed(HistOf(<<>>), HistOf(<<>>))),
     SectorFeed(Closes(100, 125), Closes(100, 120), Closes(100, 130)),
     SectorFeed(Closes(100, 80), Closes(100, 88), Closes(100, 70)),
     SectorFeed(Closes(100, 80), TickerFeed(HistOf(<<100, 120>>), HistRaised),
                Closes(100, 100))}

\* the FRED answers of a run, one per indicator
RunFredFeeds ==
    {[i \in EconomicIndicators |-> r] :
        r \in {Raised, Response(200, <<"observations">>)}}

\* lines 1339-1370
ScoreMacroAndTotal ==
    /\ pc = "macro"
    /\ \E feed \in RunSectorFeeds, fred \in RunFredFeeds :
        LET data == GetGoogMacroAnalysis(feed)
            scores == [sub_scores EXCEPT
                          !.consensus = @ + MacroContribution(data.score)]
        IN  /\ macro_data' = data
            /\ data_flags' = MacroFlags(data_flags)
            /\ sub_scores' = scores
            /\ conviction_score' = TotalScore(scores)
            /\ breakdown' = scores
            /\ retrieved' = MacroRetrieved(data_flags, feed, fred)
            /\ succeeded' = succeeded \cup retrieved'
            /\ requested' = {p \in Providers :
                                \/ p = "yfinance"
                                \/ p = "FRED" /\ data_flags["fred_api_accessible"]}
    /\ enhanced_data' = EnhancedDataKeys
    /\ pc' = "scored"
    /\ UNCHANGED <<valuation_metrics, earnings_data, ceo_analysis, revision_data,
                   recommendation, result, answers, returned, tested_flags>>

-----------------------------------------------------------------------------
(* get_position_recommendation *)

\* variant whose top threshold is exclusive
GetPositionRecommendation_Strict(score) ==
    IF score > 800
    THEN [action |-> "MAXIMUM CONVICTION BUY",
          position_size |-> "Very Large (10-15% portfolio)"]
    ELSE IF score >= 700
    THEN [action |-> "GRAB BULL BY HORNS", position_size |-> "Large (7-10% portfolio)"]
    ELSE IF score >= 600
    THEN [action |-> "STRONG BUY", position_size |-> "Medium-Large (5-7% portfolio)"]
    ELSE IF score >= 500
    THEN [action |-> "BUY", position_size |-> "Medium (3-5% portfolio)"]
    ELSE IF score >= 400
    THEN [action |-> "WATCH/SMALL BUY", position_size |-> "Small (1-3% portfolio)"]
    ELSE [action |-> "AVOID", position_size |-> "None (0% portfolio)"]

\* lines 1376-1426; the score is in tenths of a point, the emoji prefixes of the
\* action strings are left out
GetPositionRecommendation(score) ==
    IF score >= 800
    THEN [action |-> "MAXIMUM CONVICTION BUY",
          position_size |-> "Very Large (10-15% portfolio)"]
    ELSE IF score >= 700
    THEN [action |-> "GRAB BULL BY HORNS", position_size |-> "Large (7-10% portfolio)"]
    ELSE IF score >= 600
    THEN [action |-> "STRONG BUY", position_size |-> "Medium-Large (5-7% portfolio)"]
    ELSE IF score >= 500
    THEN [action |-> "BUY", position_size |-> "Medium (3-5% portfolio)"]
    ELSE IF score >= 400
    THEN [action |-> "WATCH/SMALL BUY", position_size |-> "Small (1-3% portfolio)"]
    ELSE [action |-> "AVOID", position_size |-> "None (0% portfolio)"]

-----------------------------------------------------------------------------
(* run_complete_enhanced_analysis, after the scorer returned *)

\* line 1438
Recommend ==
    /\ pc = "scored"
    /\ recommendation' = GetPositionRecommendation(conviction_score)
    /\ pc' = "recommended"
    /\ retrieved' = {}
    /\ requested' = {}
    /\ UNCHANGED <<data_flags, valuation_metrics, earnings_data, ceo_analysis,
                   revision_data, macro_data, sub_scores, conviction_score,
                   breakdown, enhanced_data, result, succeeded, answers, returned, tested_flags>>

\* line 1467: data_flags = enhanced_data.get('data_flags', {})
\* line 1473: sum(data_flags.values())/len(data_flags) divides by its length
ReportRaises(enhanced) == "data_flags" \notin enhanced

ResultKeys ==
    {"conviction_score", "recommendation", "breakdown", "enhanced_data",
     "data_quality"}

\* lines 1440-1570
Report ==
    /\ pc = "recommended"
    /\ IF ReportRaises(enhanced_data)
       THEN pc' = "raised" /\ UNCHANGED result
       ELSE pc' = "done" /\ result' = ResultKeys
    /\ retrieved' = {}
    /\ requested' = {}
    /\ UNCHANGED <<data_flags, valuation_metrics, earnings_data, ceo_analysis,
                   revision_data, macro_data, sub_scores, conviction_score,
                   breakdown, enhanced_data, recommendation, succeeded, answers, returned, tested_flags>>

Next ==
    \/ TestApiConnections
    \/ GetComprehensiveValuationData
    \/ GetEnhancedFinancialStatements
    \/ QuoteLookup
    \/ ScoreValuationAndGrowth
    \/ ScoreManagement
    \/ ScoreRevisions
    \/ ScoreMacroAndTotal
    \/ Recommend
    \/ Report

Spec == Init /\ [][Next]_vars

-----------------------------------------------------------------------------
(* get_position_recommendation called on its own with any score *)

MaxMapperScore == 1100

MapperScores == (0 - MaxMapperScore)..MaxMapperScore

InitRecommendation ==
    /\ pc = "mapper_call"
    /\ conviction_score \in MapperScores
    /\ data_flags = InitialDataFlags
    /\ valuation_metrics = InitialValuationMetrics
    /\ earnings_data = NoEarnings
    /\ ceo_analysis = NoCeo
    /\ revision_data = NoRevision
    /\ macro_data = NoMacro
    /\ sub_scores = NoScores
    /\ breakdown = EmptyDict
    /\ enhanced_data = {}
    /\ recommendation = NoRecommendation
    /\ result = {}
    /\ retrieved = {}
    /\ succeeded = {}
    /\ requested = {}
    /\ answers = NoAnswers
    /\ returned = None
    /\ tested_flags = data_flags

MapperCall ==
    /\ pc = "mapper_call"
    /\ recommendation' = GetPositionRecommendation(conviction_score)
    /\ pc' = "mapper_returned"
    /\ UNCHANGED <<data_flags, valuation_metrics, earnings_data, ceo_analysis,
                   revision_data, macro_data, sub_scores, conviction_score,
                   breakdown, enhanced_data, result, retrieved, succeeded,
                   requested, answers, returned, tested_flags>>

NextRecommendation == MapperCall

SpecRecommendation == InitRecommendation /\ [][NextRecommendation]_vars

-----------------------------------------------------------------------------
(* get_goog_earnings_data called on its own, after the connection test, with
   any answer of the two providers it asks *)

MaxRecords == 3

\* net incomes whose growth rates are either 0 or at least one whole percent, so
\* that truncating the rate to whole percents never turns a non-zero rate into 0
NetIncomes == {0 - 121, 0, 100, 110, 121}

IncomeRecords == {[netIncome |-> n] : n \in NetIncomes} \cup {[revenue |-> 7]}

IncomeBodies == UNION {[1..k -> IncomeRecords] : k \in 1..MaxRecords}

EarningsAnswers ==
    [income : Responses(IncomeBodies),
     estimates : {Raised, Response(200, <<Snapshot(1, 100)>>)},
     yf : InfoResults]

\* the flags the connection test can leave for the two providers asked
FlagsAfterTest ==
    {[InitialDataFlags EXCEPT !["fmp_api_accessible"] = fmp,
                              !["yfinance_accessible"] = yf] :
        fmp \in BOOLEAN, yf \in BOOLEAN}

InitEarnings ==
    /\ pc = "earnings_call"
    /\ answers \in EarningsAnswers
    /\ data_flags \in FlagsAfterTest
    /\ valuation_metrics = InitialValuationMetrics
    /\ earnings_data = NoEarnings
    /\ ceo_analysis = NoCeo
    /\ revision_data = NoRevision
    /\ macro_data = NoMacro
    /\ sub_scores = NoScores
    /\ conviction_score = 0
    /\ breakdown = EmptyDict
    /\ enhanced_data = {}
    /\ recommendation = NoRecommendation
    /\ result = {}
    /\ retrieved = {}
    /\ succeeded = {}
    /\ requested = {}
    /\ returned = None
    /\ tested_flags = data_flags

EarningsCall ==
    /\ pc = "earnings_call"
    /\ earnings_data' = GetGoogEarningsData(data_flags, answers.income,
                                            answers.estimates, answers.yf)
    /\ data_flags' = EarningsFlags(data_flags, answers.income, answers.estimates)
    /\ retrieved' = EarningsRetrieved(data_flags, answers.income,
                                      answers.estimates, answers.yf)
    /\ succeeded' = succeeded \cup retrieved'
    /\ requested' = EarningsRequested(data_flags, answers.income)
    /\ pc' = "earnings_returned"
    /\ UNCHANGED <<valuation_metrics, ceo_analysis, revision_data, macro_data,
                   sub_scores, conviction_score, breakdown, enhanced_data,
                   recommendation, result, answers, returned, tested_flags>>

NextEarnings == EarningsCall

SpecEarnings == InitEarnings /\ [][NextEarnings]_vars

-----------------------------------------------------------------------------
(* get_goog_revisions called on its own, after the connection test *)

\* everything but the position, the flags and the provider answers is as the
\* constructor and the locals' initialisers leave it
FreshObject ==
    /\ valuation_metrics = InitialValuationMetrics
    /\ earnings_data = NoEarnings
    /\ ceo_analysis = NoCeo
    /\ revision_data = NoRevision
    /\ macro_data = NoMacro
    /\ sub_scores = NoScores
    /\ conviction_score = 0
    /\ breakdown = EmptyDict
    /\ enhanced_data = {}
    /\ recommendation = NoRecommendation
    /\ result = {}
    /\ retrieved = {}
    /\ succeeded = {}
    /\ requested = {}
    /\ returned = None
    /\ tested_flags = data_flags

MaxTrend == 17

\* the oldest EPS average of a window: positive, negative, and zero
WindowBases == {100, 0 - 100, 0}

\* three snapshots (newest first, or shuffled), or four with one older than
\* the window, whose newest EPS average is change/100 away from the oldest
WindowBodies ==
    UNION {{<<Snapshot(3, base + change), Snapshot(2, middle), Snapshot(1, base)>>,
            <<Snapshot(2, middle), Snapshot(1, base), Snapshot(3, base + change)>>,
            <<Snapshot(0, 7), Snapshot(1, base), Snapshot(3, base + change),
              Snapshot(2, middle)>>} :
           base \in WindowBases, middle \in {0, 500},
           change \in (0 - MaxTrend)..MaxTrend}

\* payloads too short for a window, or with a snapshot lacking the EPS column
UnusableBodies ==
    {<<Snapshot(2, 100), Snapshot(1, 90)>>,
     <<Snapshot(3, 120), [date |-> 2], Snapshot(1, 100)>>}

RevisionAnswers ==
    [estimates : Responses(WindowBodies \cup UnusableBodies), yf : InfoResults]

RevisionsCall ==
    /\ pc = "revisions_call"
    /\ revision_data' = GetGoogRevisions(data_flags, answers.estimates, answers.yf)
    /\ data_flags' = RevisionFlags(data_flags, answers.estimates, answers.yf)
    /\ retrieved' = RevisionRetrieved(data_flags, answers.estimates, answers.yf)
    /\ succeeded' = succeeded \cup retrieved'
    /\ requested' = RevisionRequested(data_flags, answers.estimates)
    /\ pc' = "revisions_returned"
    /\ UNCHANGED <<valuation_metrics, earnings_data, ceo_analysis, macro_data,
                   sub_scores, conviction_score, breakdown, enhanced_data,
                   recommendation, result, answers, returned, tested_flags>>

InitRevisions ==
    /\ pc = "revisions_call"
    /\ answers \in RevisionAnswers
    /\ data_flags \in FlagsAfterTest
    /\ FreshObject

NextRevisions == RevisionsCall

SpecRevisions == InitRevisions /\ [][NextRevisions]_vars

-----------------------------------------------------------------------------
(* the clamp that ends analyze_goog_ceo (line 1025), applied to any
   accumulated score *)

MaxRawScore == 30

RawScores == (0 - MaxRawScore)..MaxRawScore

InitCeo ==
    /\ pc = "ceo_clamp"
    /\ ceo_analysis \in {[score |-> raw, raw_score |-> raw] : raw \in RawScores}
    /\ data_flags = InitialDataFlags
    /\ valuation_metrics = InitialValuationMetrics
    /\ earnings_data = NoEarnings
    /\ revision_data = NoRevision
    /\ macro_data = NoMacro
    /\ sub_scores = NoScores
    /\ conviction_score = 0
    /\ breakdown = EmptyDict
    /\ enhanced_data = {}
    /\ recommendation = NoRecommendation
    /\ result = {}
    /\ retrieved = {}
    /\ succeeded = {}
    /\ requested = {}
    /\ answers = NoAnswers
    /\ returned = None
    /\ tested_flags = data_flags

CeoClamp ==
    /\ pc = "ceo_clamp"
    /\ ceo_analysis' =
         [ceo_analysis EXCEPT !.score = CeoFinalScore(ceo_analysis.score)]
    /\ pc' = "ceo_returned"
    /\ UNCHANGED <<data_flags, valuation_metrics, earnings_data, revision_data,
                   macro_data, sub_scores, conviction_score, breakdown,
                   enhanced_data, recommendation, result, retrieved, succeeded,
                   requested, answers, returned, tested_flags>>

NextCeo == CeoClamp

SpecCeo == InitCeo /\ [][NextCeo]_vars

-----------------------------------------------------------------------------
(* get_comprehensive_valuation_data called on its own, after the connection
   test *)

QuoteKeys ==
    {"currentPrice", "fiftyTwoWeekHigh", "trailingPE", "dividendYield",
     "exDividendDate", "recommendationKey"}

\* payloads that carry any part of the fields of a full quote
PartialPayloads ==
    {[k \in keys |-> BullInfo[k]] : keys \in SUBSET QuoteKeys}

NormalizerAnswers ==
    [yf : InfoResults \cup {InfoOf(payload) : payload \in PartialPayloads},
     hist : YearHistories]

NormalizerCall ==
    /\ pc = "normalizer_call"
    /\ IF answers.yf.raised \/ answers.hist.raised
       THEN /\ data_flags' = ValuationFailed(data_flags)
            /\ UNCHANGED valuation_metrics
       ELSE /\ valuation_metrics' = Normalize(answers.yf.info)
            /\ data_flags' = ValuationCollected(data_flags)
    /\ retrieved' = IF answers.yf.raised THEN {} ELSE {"yfinance"}
    /\ succeeded' = succeeded \cup retrieved'
    /\ requested' = {"yfinance"}
    /\ pc' = "normalizer_returned"
    /\ UNCHANGED <<earnings_data, ceo_analysis, revision_data, macro_data,
                   sub_scores, conviction_score, breakdown, enhanced_data,
                   recommendation, result, answers, returned, tested_flags>>

InitNormalizer ==
    /\ pc = "normalizer_call"
    /\ answers \in NormalizerAnswers
    /\ data_flags \in FlagsAfterTest
    /\ FreshObject

NextNormalizer == NormalizerCall

SpecNormalizer == InitNormalizer /\ [][NextNormalizer]_vars

-----------------------------------------------------------------------------
(* safe_api_call called on its own; the transport holds the responses it
   would give to successive requests, and answers.next is the one the next
   request gets *)

Statuses == {200, 204, 404, 500}

AdapterResponses ==
    {Raised, Malformed}
        \cup {Response(status, body) : status \in Statuses, body \in {<<>>, <<"row">>}}

AdapterAnswers == [responses : [1..2 -> AdapterResponses], next : {1}]

InitAdapter ==
    /\ pc = "adapter_call"
    /\ answers \in AdapterAnswers
    /\ data_flags = InitialDataFlags
    /\ FreshObject

SafeApiCallAlone ==
    /\ pc = "adapter_call"
    /\ returned' = SafeApiCall(answers.responses[answers.next])
    /\ answers' = [answers EXCEPT !.next = @ + 1]
    /\ pc' = "adapter_returned"
    /\ UNCHANGED <<data_flags, valuation_metrics, earnings_data, ceo_analysis,
                   revision_data, macro_data, sub_scores, conviction_score,
                   breakdown, enhanced_data, recommendation, result, retrieved,
                   succeeded, requested, tested_flags>>

NextAdapter == SafeApiCallAlone

SpecAdapter == InitAdapter /\ [][NextAdapter]_vars

-----------------------------------------------------------------------------
(* get_goog_revisions called on its own, with the quotes that exercise its
   yfinance path *)

MaxUpside == 32

\* target prices around a current price of 100; 0 stands for "no target"
TargetPrices == {0} \cup ((100 - MaxUpside)..(100 + MaxUpside))

\* recommendation means in tenths, on both sides of each threshold
RecommendationMeans == {19, 20, 24, 25, 30, 35, 36, 40, 41}

AnalystCounts == {10, 11, 20, 21}

FallbackPayloads ==
    {[currentPrice |-> 100, targetMeanPrice |-> target,
      recommendationMean |-> mean, numberOfAnalystOpinions |-> analysts] :
        target \in TargetPrices, mean \in RecommendationMeans,
        analysts \in AnalystCounts}
      \cup {[regularMarketPrice |-> 100, targetMeanPrice |-> 140],
            [targetMeanPrice |-> 140],
            EmptyDict}

\* no answer; windows with a rising, a flat and a zero-based trend
FallbackEstimates ==
    {Raised,
     Response(200, <<Snapshot(3, 120), Snapshot(2, 110), Snapshot(1, 100)>>),
     Response(200, <<Snapshot(3, 100), Snapshot(2, 100), Snapshot(1, 100)>>),
     Response(200, <<Snapshot(3, 100), Snapshot(2, 100), Snapshot(1, 0)>>)}

FallbackAnswers ==
    [estimates : FallbackEstimates,
     yf : {InfoRaised} \cup {InfoOf(payload) : payload \in FallbackPayloads}]

InitFallback ==
    /\ pc = "revisions_call"
    /\ answers \in FallbackAnswers
    /\ data_flags \in FlagsAfterTest
    /\ FreshObject

NextFallback == RevisionsCall

SpecFallback == InitFallback /\ [][NextFallback]_vars

-----------------------------------------------------------------------------
(* get_goog_macro_analysis called on its own, after the connection test *)

MaxSwing == 21

\* 3-month histories of XLC: none, empty, or from 100 to within MaxSwing of it
XlcQuarters ==
    {HistRaised, HistOf(<<>>)}
      \cup {HistOf(<<100, 100 + swing>>) : swing \in (0 - MaxSwing)..MaxSwing}

\* 3-month histories of QQQ, on both sides of each threshold of its ladder
QqqQuarters ==
    {HistRaised, HistOf(<<>>)}
      \cup {HistOf(<<100, last>>) : last \in {89, 90, 91, 100, 105, 106, 115, 116}}

\* 1-year histories: none, empty, a gain and a loss
YearAnswers == {HistRaised, HistOf(<<>>), HistOf(<<100, 150>>), HistOf(<<100, 50>>)}

\* what SPY, XLK, FTEC and FCOM answer
OtherFeeds ==
    {TickerFeed(HistRaised, HistRaised),
     TickerFeed(HistOf(<<100, 150>>), HistOf(<<100, 50>>)),
     TickerFeed(HistOf(<<100, 50>>), HistOf(<<100, 150>>))}

MacroFeeds ==
    {SectorFeed(TickerFeed(xlc, xlc_year), TickerFeed(qqq, qqq_year), rest) :
        xlc \in XlcQuarters, xlc_year \in {HistRaised, HistOf(<<>>), HistOf(<<100, 150>>)},
        qqq \in QqqQuarters, qqq_year \in {HistRaised, HistOf(<<100, 50>>)},
        rest \in OtherFeeds}

MacroAnswers == [feed : MacroFeeds, fred : RunFredFeeds]

\* the FRED flag the connection test can leave
FlagsBeforeMacro ==
    {[InitialDataFlags EXCEPT !["fred_api_accessible"] = fred] : fred \in BOOLEAN}

InitMacro ==
    /\ pc = "macro_call"
    /\ answers \in MacroAnswers
    /\ data_flags \in FlagsBeforeMacro
    /\ FreshObject

MacroCall ==
    /\ pc = "macro_call"
    /\ macro_data' = GetGoogMacroAnalysis(answers.feed)
    /\ data_flags' = MacroFlags(data_flags)
    /\ retrieved' = MacroRetrieved(data_flags, answers.feed, answers.fred)
    /\ succeeded' = succeeded \cup retrieved'
    /\ requested' = {p \in Providers :
                        \/ p = "yfinance"
                        \/ p = "FRED" /\ data_flags["fred_api_accessible"]}
    /\ pc' = "macro_returned"
    /\ UNCHANGED <<valuation_metrics, earnings_data, ceo_analysis, revision_data,
                   sub_scores, conviction_score, breakdown, enhanced_data,
                   recommendation, result, answers, returned, tested_flags>>

NextMacro == MacroCall

SpecMacro == InitMacro /\ [][NextMacro]_vars

-----------------------------------------------------------------------------
(* the management section of the scorer on its own: analyze_goog_ceo and the
   sub-score computed from what it returns *)

MaxRoe == 16

MaxMargin == 21

\* quotes with return on equity and profit margin in whole percents, with one
\* of the two absent, or with neither
PerformancePayloads ==
    {[returnOnEquity |-> roe, profitMargins |-> margin] :
        roe \in 0..MaxRoe, margin \in 0..MaxMargin}
      \cup {[returnOnEquity |-> roe] : roe \in 0..MaxRoe}
      \cup {[profitMargins |-> margin] : margin \in 0..MaxMargin}
      \cup {EmptyDict}

ManagementAnswers ==
    [yf : {InfoRaised} \cup {InfoOf(payload) : payload \in PerformancePayloads}]

InitManagement ==
    /\ pc = "management_call"
    /\ answers \in ManagementAnswers
    /\ data_flags \in FlagsAfterTest
    /\ FreshObject

\* lines 1295-1296
ManagementCall ==
    /\ pc = "management_call"
    /\ LET analysis == AnalyzeGoogCeo(data_flags, answers.yf)
       IN  /\ ceo_analysis' = analysis
           /\ sub_scores' =
                [sub_scores EXCEPT !.management = ManagementScore(analysis.score)]
    /\ retrieved' = IF data_flags["yfinance_accessible"] /\ ~answers.yf.raised
                    THEN {"yfinance"}
                    ELSE {}
    /\ succeeded' = succeeded \cup retrieved'
    /\ requested' = IF data_flags["yfinance_accessible"] THEN {"yfinance"} ELSE {}
    /\ pc' = "management_returned"
    /\ UNCHANGED <<data_flags, valuation_metrics, earnings_data, revision_data,
                   macro_data, conviction_score, breakdown, enhanced_data,
                   recommendation, result, answers, returned, tested_flags>>

NextManagement == ManagementCall

SpecManagement == InitManagement /\ [][NextManagement]_vars

-----------------------------------------------------------------------------
(* Properties *)

Scored == pc \in {"scored", "recommended", "done", "raised"}

Finished == pc \in {"done", "raised"}

SubScoreNames == {"valuation", "growth", "management", "consensus"}

TierRank(action) ==
    CASE action = "AVOID" -> 0
      [] action = "WATCH/SMALL BUY" -> 1
      [] action = "BUY" -> 2
      [] action = "STRONG BUY" -> 3
      [] action = "GRAB BULL BY HORNS" -> 4
      [] action = "MAXIMUM CONVICTION BUY" -> 5

\* C1: get_position_recommendation is a step function of the score with
\* inclusive lower bounds: 80 and above MAXIMUM CONVICTION BUY, 70 and above
\* GRAB BULL BY HORNS, 60 and above STRONG BUY, 50 and above BUY, 40 and above
\* WATCH/SMALL BUY, anything lower AVOID; a score gets exactly one tier, and a
\* lower score never gets a higher tier.
C1_StepFunction ==
    pc = "mapper_returned" =>
        LET s == conviction_score
            a == recommendation.action
        IN  /\ (a = "MAXIMUM CONVICTION BUY") <=> (s >= 800)
            /\ (a = "GRAB BULL BY HORNS") <=> (700 <= s /\ s < 800)
            /\ (a = "STRONG BUY") <=> (600 <= s /\ s < 700)
            /\ (a = "BUY") <=> (500 <= s /\ s < 600)
            /\ (a = "WATCH/SMALL BUY") <=> (400 <= s /\ s < 500)
            /\ (a = "AVOID") <=> (s < 400)
            /\ \A t \in MapperScores :
                  t <= s => TierRank(GetPositionRecommendation(t).action)
                               <= TierRank(a)

\* a score exactly on the top threshold was mapped
C1_Witness ==
    /\ pc = "mapper_returned"
    /\ conviction_score = 800
    /\ recommendation.action = "MAXIMUM CONVICTION BUY"

\* C2: when the quote lookup at the head of calculate_goog_conviction_score
\* raises, the scorer does not propagate the exception: it returns the score 0
\* with an empty breakdown and an empty data bundle.
C2_QuoteFailureReturnsZero ==
    [][(pc = "quote" /\ "yfinance" \notin retrieved') =>
          /\ pc' = "scored"
          /\ conviction_score' = 0
          /\ breakdown' = EmptyDict
          /\ enhanced_data' = {}]_vars

\* the scorer returned through its except handler
C2_Witness ==
    /\ pc = "scored"
    /\ retrieved = {}
    /\ conviction_score = 0
    /\ breakdown = EmptyDict
    /\ enhanced_data = {}

\* C3: a provider that fails on every call cannot abort the run:
\* run_complete_enhanced_analysis ends by returning its result with the five
\* keys conviction_score, recommendation, breakdown, enhanced_data, data_quality.
C3_NoProviderAbortsRun ==
    \A p \in Providers :
        (Finished /\ p \notin succeeded) =>
            /\ pc = "done"
            /\ result = {"conviction_score", "recommendation", "breakdown",
                         "enhanced_data", "data_quality"}

\* C4: the composite score is the sum of the four sub-scores and lies in 0..100.
C4_CompositeIsSumInRange ==
    Scored =>
        /\ 0 <= conviction_score /\ conviction_score <= 1000
        /\ conviction_score =
             IF breakdown = EmptyDict
             THEN 0
             ELSE breakdown.valuation + breakdown.growth
                    + breakdown.management + breakdown.consensus

\* the scorer computed the highest composite
C4_Witness ==
    /\ pc = "scored"
    /\ breakdown # EmptyDict
    /\ conviction_score = 1000

\* C5: each of the four sub-scores (valuation, growth, management, consensus)
\* is at most 25 points, while it accumulates and in the returned breakdown.
C5_SubScoresAtMost25 ==
    /\ \A k \in SubScoreNames : sub_scores[k] <= 250
    /\ \A k \in DOMAIN breakdown : breakdown[k] <= 250

\* the scorer returned a breakdown with every sub-score on its bound
C5_Witness ==
    /\ pc = "scored"
    /\ DOMAIN breakdown = SubScoreNames
    /\ \A k \in SubScoreNames : breakdown[k] = 250

\* C6: the flag map always has the same 14 keys; a flag that is true stays
\* true, and a flag only turns true in a step in which a provider returned data.
C6_FlagsSetOnlyByRetrieval ==
    [][/\ DOMAIN data_flags' = FlagNames
       /\ \A f \in FlagNames :
            /\ data_flags[f] => data_flags'[f]
            /\ (~data_flags[f] /\ data_flags'[f]) => retrieved' # {}]_vars

C8_EarningsNeverNoData ==
    pc = "management" =>
        /\ earnings_data.cagr # 0
        /\ earnings_data.quality \in {"HIGH", "ESTIMATED", "ESTIMATED_HISTORICAL"}

\* the non-zero net incomes in absolute value, oldest first, of a payload that
\* lists the newest record first
UsableFigures(body) ==
    LET n == Len(body)
        chronological == [i \in 1..n |-> body[n + 1 - i]]
        reported(r) == IF "netIncome" \in DOMAIN r THEN r.netIncome ELSE 0
        magnitude(r) == IF reported(r) < 0 THEN 0 - reported(r) ELSE reported(r)
    IN  SelectSeq([i \in 1..n |-> magnitude(chronological[i])], LAMBDA x : x # 0)

\* C9: the earnings fallback runs in order (statements, then the yfinance
\* growth field, then the constant 0.15) and the tags always name the step
\* that supplied the rate: the growth field is consulted only when the
\* statements left the rate at 0, and always when they gave no usable figure.
C9_EarningsFallbackOrder ==
    pc = "management" =>
        LET e == earnings_data
            figures == SelectSeq(e.historical_earnings, LAMBDA x : x # 0)
        IN  /\ <<e.quality, e.source>> \in
                  {<<"HIGH", "FMP">>, <<"ESTIMATED", "YFINANCE">>,
                   <<"ESTIMATED_HISTORICAL", "FALLBACK">>}
            /\ e.source = "FALLBACK" => e.cagr = 15
            /\ e.source \in {"YFINANCE", "FALLBACK"} =>
                  \/ Len(figures) < 2
                  \/ Abs(figures[1]) = Abs(figures[Len(figures)])
            /\ Len(figures) = 0 => e.source \in {"YFINANCE", "FALLBACK"}

\* C10: the statements path returns (latest / earliest) ^ (1 / (n - 1)) - 1
\* over the n non-zero net incomes taken in absolute value, oldest first:
\* 0.21 for [100, 121], 0.10 for [100, 110, 121]; with fewer than two usable
\* figures it leaves the rate at 0.
C10_StatementsCagr ==
    (/\ pc = "earnings_returned"
     /\ data_flags["fmp_api_accessible"]
     /\ Delivered(answers.income)) =>
        LET figures == UsableFigures(answers.income.body)
            n == Len(figures)
            e == earnings_data
            growth == e.cagr + 100
            scale == Pow(100, n - 1)
        IN  /\ (Len(answers.income.body) >= 2 /\ n >= 2) =>
                  \/ /\ e.source = "FMP"
                     /\ Pow(growth, n - 1) * figures[1] <= figures[n] * scale
                     /\ Pow(growth + 1, n - 1) * figures[1] > figures[n] * scale
                  \/ /\ e.source # "FMP"
                     /\ figures[1] <= figures[n]
                     /\ figures[n] * scale < Pow(101, n - 1) * figures[1]
            /\ (Len(answers.income.body) < 2 \/ n < 2) =>
                  /\ e.source # "FMP"
                  /\ e.source = "NONE" => e.cagr = 0
            /\ figures = <<100, 121>> /\ e.source = "FMP" => e.cagr = 21
            /\ figures = <<100, 110, 121>> /\ e.source = "FMP" => e.cagr = 10

\* three statements, newest first, gave the rate 0.10
C10_Witness ==
    /\ pc = "earnings_returned"
    /\ Delivered(answers.income)
    /\ answers.income.body =
          <<[netIncome |-> 121], [netIncome |-> 110], [netIncome |-> 100]>>
    /\ earnings_data.source = "FMP"
    /\ earnings_data.cagr = 10

\* the snapshot of a payload with exactly n newer ones (dates are distinct)
NthNewest(body, n) ==
    LET i == CHOOSE k \in 1..Len(body) :
                 Cardinality({j \in 1..Len(body) : body[j].date > body[k].date}) = n
    IN  body[i]

\* the answers give get_goog_revisions a window of three snapshots
WindowGiven ==
    /\ data_flags["fmp_api_accessible"]
    /\ Delivered(answers.estimates)
    /\ Len(answers.estimates.body) >= 3
    /\ \A i \in 1..Len(answers.estimates.body) :
          {"date", "estimatedEpsAvg"} \subseteq DOMAIN answers.estimates.body[i]

\* the bucket the claimed ladder gives to (latest - previous) / |previous|,
\* thresholds in hundredths
ClaimedBucket(latest, previous) ==
    LET size == IF previous < 0 THEN 0 - previous ELSE previous
        trend == (latest - previous) * 100
    IN  CASE trend > 15 * size -> <<5, "VERY BULLISH", 95>>
          [] trend <= 15 * size /\ trend > 10 * size -> <<4, "BULLISH", 90>>
          [] trend <= 10 * size /\ trend > 5 * size -> <<3, "POSITIVE", 80>>
          [] trend <= 5 * size /\ trend > 2 * size -> <<2, "SLIGHTLY POSITIVE", 70>>
          [] trend < (0 - 15) * size -> <<0 - 4, "VERY BEARISH", 95>>
          [] trend >= (0 - 15) * size /\ trend < (0 - 10) * size ->
                <<0 - 3, "BEARISH", 90>>
          [] trend >= (0 - 10) * size /\ trend < (0 - 5) * size ->
                <<0 - 2, "NEGATIVE", 80>>
          [] OTHER -> <<0, "STABLE", 60>>

\* C11: the primary revision path takes trend = (latest - previous)/|previous|
\* with latest the newest and previous the oldest of the three most recent EPS
\* averages, and maps it through the ladder > 0.15: 5/VERY BULLISH/0.95,
\* > 0.10: 4/BULLISH/0.9, > 0.05: 3/POSITIVE/0.8, > 0.02: 2/SLIGHTLY POSITIVE/0.7,
\* < -0.15: -4/VERY BEARISH/0.95, < -0.10: -3/BEARISH/0.9, < -0.05: -2/NEGATIVE/0.8,
\* otherwise 0/STABLE/0.6; +0.16 gives 5 and +0.03 gives 2.
C11_PrimaryLadder ==
    (/\ pc = "revisions_returned"
     /\ WindowGiven
     /\ NthNewest(answers.estimates.body, 2).estimatedEpsAvg # 0) =>
        LET latest == NthNewest(answers.estimates.body, 0).estimatedEpsAvg
            previous == NthNewest(answers.estimates.body, 2).estimatedEpsAvg
            claimed == ClaimedBucket(latest, previous)
            r == revision_data
            bucket == <<r.score, r.direction, r.confidence>>
        IN  /\ claimed[1] # 0 => r.source = "FMP"
            /\ r.source = "FMP" => bucket = claimed
            /\ (previous = 100 /\ latest = 116) => r.score = 5
            /\ (previous = 100 /\ latest = 103) => r.score = 2

\* a trend of +0.03 over a shuffled payload was bucketed
C11_Witness ==
    /\ pc = "revisions_returned"
    /\ answers.estimates.body =
          <<Snapshot(2, 500), Snapshot(1, 100), Snapshot(3, 103)>>
    /\ revision_data.source = "FMP"
    /\ revision_data.score = 2
    /\ revision_data.direction = "SLIGHTLY POSITIVE"
    /\ revision_data.confidence = 70

\* C12: when the oldest EPS average of the window is 0 the primary path
\* divides nothing and sets neither score, direction, confidence, source nor
\* revision_data_available; control falls through to the yfinance path.
C12_ZeroPreviousSkipsPrimary ==
    (/\ pc = "revisions_returned"
     /\ WindowGiven
     /\ NthNewest(answers.estimates.body, 2).estimatedEpsAvg = 0) =>
        LET info == answers.yf.info
            price == IF "currentPrice" \in DOMAIN info THEN info.currentPrice
                     ELSE IF "regularMarketPrice" \in DOMAIN info
                          THEN info.regularMarketPrice ELSE 0
            target == IF "targetMeanPrice" \in DOMAIN info
                      THEN info.targetMeanPrice ELSE 0
            secondary == /\ data_flags["yfinance_accessible"]
                         /\ ~answers.yf.raised
                         /\ price # 0 /\ target # 0
        IN  /\ revision_data.source # "FMP"
            /\ secondary => revision_data.source = "YFINANCE"
            /\ data_flags["yfinance_accessible"] => "yfinance" \in requested
            /\ ~secondary =>
                  /\ revision_data = NoRevision
                  /\ ~data_flags["revision_data_available"]

\* a window whose oldest average is 0 was handed over and yfinance answered
C12_Witness ==
    /\ pc = "revisions_returned"
    /\ WindowGiven
    /\ NthNewest(answers.estimates.body, 2).estimatedEpsAvg = 0
    /\ NthNewest(answers.estimates.body, 0).estimatedEpsAvg > 0
    /\ revision_data.source = "YFINANCE"

RevisionLabels ==
    {"VERY BULLISH", "BULLISH", "POSITIVE", "SLIGHTLY POSITIVE", "STABLE",
     "NEGATIVE", "BEARISH", "VERY BEARISH"}

\* C13: whatever the providers answer, the score get_goog_revisions returns is
\* in -4..5, its direction is one of the fixed labels and its confidence is in
\* [0, 1], on the primary and on the fallback path.
C13_RevisionRange ==
    pc \in {"macro", "scored", "recommended", "done", "raised"} =>
        /\ revision_data.score \in (0 - 4)..5
        /\ revision_data.direction \in RevisionLabels
        /\ revision_data.confidence \in 0..100

\* C14: analyze_goog_ceo returns min(max(raw, 0), 15) of the accumulated raw
\* score, so the score is always in 0..15; a raw score of 20 gives 15 and a raw
\* score of -5 gives 0.
C14_CeoScoreClamped ==
    pc = "ceo_returned" =>
        LET raw == ceo_analysis.raw_score
            score == ceo_analysis.score
        IN  /\ 0 <= score /\ score <= 15
            /\ raw < 0 => score = 0
            /\ raw > 15 => score = 15
            /\ (0 <= raw /\ raw <= 15) => score = raw
            /\ raw = 20 => score = 15
            /\ raw = 0 - 5 => score = 0

\* a raw score of -5 was clamped
C14_Witness ==
    /\ pc = "ceo_returned"
    /\ ceo_analysis.raw_score = 0 - 5
    /\ ceo_analysis.score = 0

\* the fields each category holds after the normalizer
CategoryFields ==
    [price_metrics |-> {"current_price", "week_52_high", "week_52_low",
                        "price_vs_52w_high", "price_vs_52w_low",
                        "price_target_mean"},
     ratio_metrics |-> {"pe_ratio", "forward_pe", "peg_ratio"},
     growth_metrics |-> {"revenue_growth", "earnings_growth", "book_value_growth"},
     profitability_metrics |-> {"profit_margins", "roe", "roic"},
     efficiency_metrics |-> {"asset_turnover", "working_capital"},
     leverage_metrics |-> {"total_debt", "total_cash", "net_debt"},
     liquidity_metrics |-> {"current_ratio", "cash_ratio"},
     market_metrics |-> {"beta"},
     dividend_metrics |-> {"dividend_yield", "ex_dividend_date"},
     quality_metrics |-> {"recommendation_mean", "recommendation_key",
                          "number_of_analyst_opinions", "analyst_target_upside"}]

\* category, field and the payload field that backs it, for the numeric fields
\* copied from the payload
BackedFields ==
    {<<"price_metrics", "week_52_high", "fiftyTwoWeekHigh">>,
     <<"price_metrics", "week_52_low", "fiftyTwoWeekLow">>,
     <<"price_metrics", "price_target_mean", "targetMeanPrice">>,
     <<"ratio_metrics", "pe_ratio", "trailingPE">>,
     <<"ratio_metrics", "forward_pe", "forwardPE">>,
     <<"ratio_metrics", "peg_ratio", "pegRatio">>,
     <<"growth_metrics", "revenue_growth", "revenueGrowth">>,
     <<"growth_metrics", "earnings_growth", "earningsGrowth">>,
     <<"profitability_metrics", "profit_margins", "profitMargins">>,
     <<"profitability_metrics", "roe", "returnOnEquity">>,
     <<"leverage_metrics", "total_debt", "totalDebt">>,
     <<"leverage_metrics", "total_cash", "totalCash">>,
     <<"liquidity_metrics", "current_ratio", "currentRatio">>,
     <<"market_metrics", "beta", "beta">>,
     <<"dividend_metrics", "dividend_yield", "dividendYield">>,
     <<"quality_metrics", "recommendation_mean", "recommendationMean">>,
     <<"quality_metrics", "number_of_analyst_opinions", "numberOfAnalystOpinions">>}

\* C15: after the normalizer every field of every one of the ten categories is
\* present, and holds 0 when the payload lacks the field that backs it (never
\* None, never a non-numeric placeholder, never a missing key), also when the
\* payload is empty or the quote lookup fails.
C15_MetricsDefaultToZero ==
    pc = "normalizer_returned" =>
        LET info == answers.yf.info
        IN  /\ \A c \in Categories : DOMAIN valuation_metrics[c] = CategoryFields[c]
            /\ \A b \in BackedFields :
                  b[3] \notin DOMAIN info => valuation_metrics[b[1]][b[2]] = 0
            /\ "exDividendDate" \notin DOMAIN info =>
                  valuation_metrics.dividend_metrics.ex_dividend_date = Number(0)
            /\ "recommendationKey" \notin DOMAIN info =>
                  valuation_metrics.quality_metrics.recommendation_key = Number(0)

\* C16: safe_api_call performs exactly one request per invocation, returns the
\* parsed payload if and only if the status is 200 and the parsed body is
\* non-empty, returns None on any other status, an empty body, a timeout or a
\* transport or parse error, and never raises.
C16_AdapterContract ==
    pc = "adapter_returned" =>
        LET response == answers.responses[1]
            good == /\ ~response.raised
                    /\ "malformed" \notin DOMAIN response
                    /\ response.status = 200
                    /\ response.body # <<>>
        IN  /\ answers.next = 2
            /\ good => returned = [is_none |-> FALSE, data |-> response.body]
            /\ ~good => returned = [is_none |-> TRUE, data |-> <<>>]

\* a response with a non-200 status and a body was turned into None
C16_Witness ==
    /\ pc = "adapter_returned"
    /\ answers.responses[1] = Response(404, <<"row">>)
    /\ returned = None

AccessFlag ==
    [FMP |-> "fmp_api_accessible", AlphaVantage |-> "alpha_vantage_accessible",
     FRED |-> "fred_api_accessible", yfinance |-> "yfinance_accessible"]

\* C18: a failed request is not retried and leaves the provider's availability
\* flag false: after a step in which a provider was asked and returned no data
\* its flag is false; after the connection test FMP is only asked while
\* fmp_api_accessible is true and FRED only while fred_api_accessible is true.
C18_FailureMarksFlagFalse ==
    [][/\ \A p \in Providers :
            (p \in requested' /\ p \notin retrieved') => ~data_flags'[AccessFlag[p]]
       /\ (pc # "start" /\ "FMP" \in requested') => data_flags["fmp_api_accessible"]
       /\ (pc # "start" /\ "FRED" \in requested') => data_flags["fred_api_accessible"]
      ]_vars

\* C19: the yfinance revision path is used only if the primary path left the
\* score at 0 and yfinance is accessible; a non-zero primary score keeps source
\* FMP and yfinance is not asked. When it runs with non-zero target and current
\* price, score = upside bucket (> 0.30: 4, > 0.20: 3, > 0.10: 2, > 0.05: 1,
\* < -0.15: -3, < -0.05: -1, else 0) + recommendation bucket (< 2.0: 2, < 2.5: 1,
\* > 4.0: -2, > 3.5: -1, else 0), confidence is 0.8 above 20 analysts, 0.7 above
\* 10, else 0.6, and direction is >= 4 VERY BULLISH, >= 2 BULLISH, >= 1 POSITIVE,
\* <= -3 VERY BEARISH, <= -1 BEARISH, else STABLE.
C19_FallbackPath ==
    pc = "revisions_returned" =>
        LET body == answers.estimates.body
            primary == /\ WindowGiven
                       /\ NthNewest(body, 2).estimatedEpsAvg # 0
                       /\ ClaimedBucket(NthNewest(body, 0).estimatedEpsAvg,
                                        NthNewest(body, 2).estimatedEpsAvg)[1] # 0
            info == answers.yf.info
            has(key) == key \in DOMAIN info
            price == IF has("currentPrice") THEN info.currentPrice
                     ELSE IF has("regularMarketPrice") THEN info.regularMarketPrice
                     ELSE 0
            target == IF has("targetMeanPrice") THEN info.targetMeanPrice ELSE 0
            mean == IF has("recommendationMean") THEN info.recommendationMean ELSE 30
            analysts == IF has("numberOfAnalystOpinions")
                        THEN info.numberOfAnalystOpinions ELSE 0
            runs == /\ ~primary
                    /\ data_flags["yfinance_accessible"]
                    /\ ~answers.yf.raised
                    /\ target # 0 /\ price # 0
            gain == (target - price) * 100
            upside == CASE gain > 30 * price -> 4
                        [] gain <= 30 * price /\ gain > 20 * price -> 3
                        [] gain <= 20 * price /\ gain > 10 * price -> 2
                        [] gain <= 10 * price /\ gain > 5 * price -> 1
                        [] gain < (0 - 15) * price -> 0 - 3
                        [] gain >= (0 - 15) * price /\ gain < (0 - 5) * price -> 0 - 1
                        [] OTHER -> 0
            opinion == CASE mean < 20 -> 2
                         [] mean >= 20 /\ mean < 25 -> 1
                         [] mean > 40 -> 0 - 2
                         [] mean <= 40 /\ mean > 35 -> 0 - 1
                         [] OTHER -> 0
            score == upside + opinion
            r == revision_data
        IN  /\ primary => (r.source = "FMP" /\ "yfinance" \notin requested)
            /\ "yfinance" \in requested =>
                  (~primary /\ data_flags["yfinance_accessible"])
            /\ ~runs => r.source # "YFINANCE"
            /\ runs =>
                  /\ r.source = "YFINANCE"
                  /\ r.score = score
                  /\ r.confidence = (IF analysts > 20 THEN 80
                                     ELSE IF analysts > 10 THEN 70 ELSE 60)
                  /\ r.direction =
                       (CASE score >= 4 -> "VERY BULLISH"
                          [] score \in {2, 3} -> "BULLISH"
                          [] score = 1 -> "POSITIVE"
                          [] score <= 0 - 3 -> "VERY BEARISH"
                          [] score \in {0 - 2, 0 - 1} -> "BEARISH"
                          [] OTHER -> "STABLE")

\* the yfinance path ran on a flat FMP window and summed both buckets
C19_Witness ==
    /\ pc = "revisions_returned"
    /\ Delivered(answers.estimates)
    /\ data_flags["fmp_api_accessible"]
    /\ ~answers.yf.raised
    /\ answers.yf.info =
          [currentPrice |-> 100, targetMeanPrice |-> 121,
           recommendationMean |-> 24, numberOfAnalystOpinions |-> 11]
    /\ revision_data =
          [score |-> 4, direction |-> "VERY BULLISH", confidence |-> 70,
           source |-> "YFINANCE"]

\* the points the claimed ladder gives a revision score, in tenths
ClaimedRevisionPoints(score) ==
    CASE score >= 5 -> 150
      [] score = 4 -> 120
      [] score = 3 -> 100
      [] score = 2 -> 70
      [] score = 1 -> 40
      [] score <= 0 - 4 -> 0 - 80
      [] score = 0 - 3 -> 0 - 50
      [] score = 0 - 2 -> 0 - 30
      [] score \in {0 - 1, 0} -> 0

Return3m(ticker_feed) ==
    LET closes == ticker_feed.quarter.closes
    IN  <<closes[Len(closes)] - closes[1], closes[1]>>

\* two feeds of a ticker that differ at most in the returns they carry
SameOutcome(a, b) ==
    /\ a.quarter.raised = b.quarter.raised
    /\ a.year.raised = b.year.raised
    /\ (~a.quarter.raised => (Len(a.quarter.closes) > 0) = (Len(b.quarter.closes) > 0))

C25_MacroContributionRange ==
    (Scored /\ breakdown # EmptyDict) =>
        /\ macro_data.score \in 5..14
        /\ MacroContribution(macro_data.score) \in {75, 90, 100}
        /\ breakdown.consensus - ClaimedRevisionPoints(revision_data.score)
              \in {75, 90, 100}
        /\ breakdown.consensus >= 0 - 5

\* the lowest macro score met the lowest revision rung
C25_Witness ==
    /\ pc = "scored"
    /\ macro_data.score = 5
    /\ revision_data.score <= 0 - 4
    /\ breakdown.consensus = 0 - 5

Calculators == {"earnings", "management", "revision", "macro"}

\* the calculators that have returned, by the position in the scorer
CalculatorsReturned ==
    CASE pc = "management" -> {"earnings"}
      [] pc = "revisions" -> {"earnings", "management"}
      [] pc = "macro" -> {"earnings", "management", "revision"}
      [] Scored /\ enhanced_data # {} -> Calculators
      [] OTHER -> {}

\* C23: the stages of a run are strictly ordered: the connection test ends
\* before the normaliser runs, the normaliser before any calculator, all four
\* calculators before any sub-score is computed, and the scorer before the one
\* call of the recommendation mapper.
C23_StagesInOrder ==
    [][/\ valuation_metrics' # valuation_metrics => pc = "normalize"
       /\ CalculatorsReturned' # CalculatorsReturned =>
             pc \notin {"start", "normalize"}
       /\ sub_scores' # sub_scores => CalculatorsReturned' = Calculators
       /\ recommendation' # recommendation =>
             (pc = "scored" /\ recommendation = NoRecommendation)
      ]_vars

\* C24: with the in-source CEO table the management sub-score is 25 in every
\* run that reaches it: the raw CEO score is 23 plus a performance adjustment
\* in [-2, 3], so at least 21, clamps to 15, and min(int(15 x 1.67), 25) = 25,
\* whatever the return on equity, the profit margin and the yfinance flag.
C24_ManagementConstant ==
    pc = "management_returned" =>
        /\ ceo_analysis.raw_score - 23 \in (0 - 2)..3
        /\ ceo_analysis.raw_score >= 21
        /\ ceo_analysis.score = 15
        /\ sub_scores.management = 250

\* the weakest ratios: the raw score is at its lowest
C24_Witness ==
    /\ pc = "management_returned"
    /\ data_flags["yfinance_accessible"]
    /\ ~answers.yf.raised
    /\ answers.yf.info = [returnOnEquity |-> 4, profitMargins |-> 9]
    /\ ceo_analysis.raw_score = 21
    /\ sub_scores.management = 250

TrueFlags == {f \in DOMAIN data_flags : data_flags[f]}

\* C26: insider_trading_available, institutional_holdings_available,
\* options_data_available and news_sentiment_available are false in every
\* reachable state, so at most 10 of the 14 flags are true and the reported
\* ratio sum(flags)/len(flags) is at most 10/14.
C26_FourFlagsNeverSet ==
    /\ DOMAIN data_flags = FlagNames
    /\ Cardinality(FlagNames) = 14
    /\ \A f \in {"insider_trading_available", "institutional_holdings_available",
                 "options_data_available", "news_sentiment_available"} :
          ~data_flags[f]
    /\ Cardinality(TrueFlags) <= 10
    /\ Cardinality(TrueFlags) * 14 <= 10 * Cardinality(DOMAIN data_flags)

\* a reported run in which the other ten flags are all true
C26_Witness ==
    /\ pc = "done"
    /\ Cardinality(TrueFlags) = 10

\* C27: a STABLE result of the primary path is overwritten: when the FMP trend
\* lands in the default bucket (score 0, source FMP, confidence 0.6) and
\* yfinance is accessible with non-zero mean target and current price, the
\* returned score, direction, confidence and source are those of the yfinance
\* path, not the primary result.
C27_StableOverwritten ==
    (/\ pc = "revisions_returned"
     /\ WindowGiven
     /\ NthNewest(answers.estimates.body, 2).estimatedEpsAvg # 0
     /\ ClaimedBucket(NthNewest(answers.estimates.body, 0).estimatedEpsAvg,
                      NthNewest(answers.estimates.body, 2).estimatedEpsAvg)
           = <<0, "STABLE", 60>>
     /\ data_flags["yfinance_accessible"]
     /\ ~answers.yf.raised
     /\ Get(answers.yf.info, "targetMeanPrice", 0) # 0
     /\ CurrentPrice(answers.yf.info) # 0)
    => /\ revision_data.source = "YFINANCE"
       /\ revision_data = RevisionFallbackPath(TRUE, answers.yf, NoRevision)
       /\ revision_data #
            [score |-> 0, direction |-> "STABLE", confidence |-> 60, source |-> "FMP"]

\* a flat FMP window was replaced by a very bearish yfinance reading
C27_Witness ==
    /\ pc = "revisions_returned"
    /\ data_flags["fmp_api_accessible"]
    /\ answers.estimates =
          Response(200, <<Snapshot(3, 100), Snapshot(2, 100), Snapshot(1, 100)>>)
    /\ answers.yf.info =
          [currentPrice |-> 100, targetMeanPrice |-> 80,
           recommendationMean |-> 41, numberOfAnalystOpinions |-> 21]
    /\ revision_data =
          [score |-> 0 - 5, direction |-> "VERY BEARISH", confidence |-> 80,
           source |-> "YFINANCE"]

\* the revenue growth and the profit margin the growth section reads
RevenueGrowthRead == Get(valuation_metrics["growth_metrics"], "revenue_growth", 0)

ProfitMarginRead ==
    Get(valuation_metrics["profitability_metrics"], "profit_margins", 0)

\* what the claimed ladders give to the revenue growth and the profit margin,
\* in tenths of a point
ClaimedRevenuePoints ==
    CASE RevenueGrowthRead > 30 -> 80
      [] RevenueGrowthRead \in 21..30 -> 60
      [] RevenueGrowthRead \in 16..20 -> 40
      [] RevenueGrowthRead \in 11..15 -> 30
      [] RevenueGrowthRead \in 6..10 -> 20
      [] RevenueGrowthRead \in 1..5 -> 10
      [] RevenueGrowthRead <= 0 -> 0 - 30

ClaimedMarginPoints ==
    CASE ProfitMarginRead > 30 -> 50
      [] ProfitMarginRead \in 21..30 -> 40
      [] ProfitMarginRead \in 16..20 -> 30
      [] ProfitMarginRead \in 11..15 -> 20
      [] ProfitMarginRead \in 6..10 -> 10
      [] ProfitMarginRead <= 5 -> 0

\* the earnings component of the growth sub-score just computed
EarningsComponent == sub_scores.growth - ClaimedRevenuePoints - ClaimedMarginPoints

\* C28: the zero sentinel is scored as negative growth: an earnings rate of 0
\* gives an earnings component of -4 and a revenue growth of 0 a revenue
\* component of -3, as negative values do, and the growth sub-score is never
\* below -7.
C28_ZeroScoredAsNegative ==
    pc = "management" =>
        /\ earnings_data.cagr <= 0 => EarningsComponent = 0 - 40
        /\ earnings_data.cagr > 0 => EarningsComponent > 0
        /\ (earnings_data.cagr = 0 /\ RevenueGrowthRead = 0) =>
              sub_scores.growth = 0 - 70 + ClaimedMarginPoints
        /\ (earnings_data.cagr > 0 /\ RevenueGrowthRead <= 0) =>
              sub_scores.growth - EarningsGrowthPoints(earnings_data.cagr)
                  - ClaimedMarginPoints = 0 - 30
        /\ sub_scores.growth >= 0 - 70

\* no earnings rate and no revenue growth: the growth sub-score is -7
C28_Witness ==
    /\ pc = "management"
    /\ earnings_data.cagr = 0
    /\ earnings_data.source = "NONE"
    /\ RevenueGrowthRead = 0
    /\ sub_scores.growth = 0 - 70

\* C29: the static fallback rate of exactly 0.15 is in the moderate tier of the
\* earnings ladder, whose test is strictly greater than 0.15: the earnings
\* component of the growth sub-score is +4, not +6.
C29_FallbackRateIsModerate ==
    (pc = "management" /\ earnings_data.source = "FALLBACK") =>
        /\ earnings_data.cagr = 15
        /\ EarningsComponent = 40

\* the static fallback met a quote without revenue growth or margin
C29_Witness ==
    /\ pc = "management"
    /\ earnings_data.source = "FALLBACK"
    /\ earnings_data.quality = "ESTIMATED_HISTORICAL"
    /\ RevenueGrowthRead = 0
    /\ sub_scores.growth = 40 - 30

\* C30: the normaliser re-decides the yfinance flag: whenever
\* get_comprehensive_valuation_data completes without an exception it sets
\* valuation_data_complete and yfinance_accessible to true, even when the
\* connection test left yfinance_accessible false; that enables the yfinance
\* steps of the earnings, revision and management calculators, which are only
\* taken while the flag is true.
C30_NormalizerSetsYfinanceFlag ==
    /\ pc = "statements" =>
          IF valuation_metrics # InitialValuationMetrics
          THEN /\ data_flags["valuation_data_complete"]
               /\ data_flags["yfinance_accessible"]
          ELSE /\ ~data_flags["valuation_data_complete"]
               /\ data_flags["yfinance_accessible"]
                     = tested_flags["yfinance_accessible"]
    /\ (pc \in {"management", "revisions", "macro"} /\ "yfinance" \in requested) =>
          /\ data_flags["yfinance_accessible"]
          /\ ~tested_flags["yfinance_accessible"] =>
                data_flags["valuation_data_complete"]

\* the connection test left the flag false, and the revision calculator took
\* its yfinance path all the same
C30_Witness ==
    /\ pc = "macro"
    /\ ~tested_flags["yfinance_accessible"]
    /\ data_flags["valuation_data_complete"]
    /\ "yfinance" \in requested
    /\ revision_data.source = "YFINANCE"

====
